---- MODULE Spec2Model ----
(***************************************************************************)
(* compare-locales: the multi-grammar parser (compare_locales/parser.py)   *)
(* and the comparison engine (compare_locales/compare.py).                 *)
(*                                                                         *)
(* A text buffer is a sequence of one-character strings; offsets are       *)
(* 0-based as in the Python source, spans are half-open <<start, end>>.    *)
(***************************************************************************)
EXTENDS Integers, Sequences, FiniteSets, TLC

(***************************************************************************)
(* Characters and the character classes the patterns use.                  *)
(***************************************************************************)
NL == "\n"
BS == "\\"
\* \s
Space == {" ", "\t", NL, "\r"}
\* [ \t]
Blank == {" ", "\t"}
\* the byte that is no valid UTF-8 (0xFF), as one character
BadByte == "BAD"
\* \w: the letters, digits and the underscore the model's buffers use
Word == {"a", "b", "c", "d", "e", "f", "g", "h", "i", "k", "l", "m", "n",
         "o", "p", "r", "t", "u", "x", "y", "z",
         "B", "C", "E", "I", "K", "L", "M", "N", "O", "P", "S", "T", "Y",
         "0", "1", "2", "3", "_"}
\* every character a buffer of the model is made of
Char == Word \cup {"=", ":", "#", "!", ";", "[", "]", "<", ">", "-", "%",
                   "\"", "'", "/", ".", " ", "\t", NL, BS}
\* . (without DOTALL)
Dot == Char \ {NL}

\* s[a:b]
Slice(s, a, b) == SubSeq(s, a + 1, b)
\* s[i], or "" past the end
At(s, i) == IF i >= 0 /\ i < Len(s) THEN s[i + 1] ELSE ""
\* the end of the longest run of characters of set S that starts at i
SkipSet(s, i, S) ==
    CHOOSE j \in i..Len(s) :
        /\ \A k \in i..(j - 1) : s[k + 1] \in S
        /\ (j = Len(s) \/ s[j + 1] \notin S)
\* s.startswith(lit, i)
StartsWith(s, i, lit) ==
    /\ i + Len(lit) <= Len(s)
    /\ \A k \in 1..Len(lit) : s[i + k] = lit[k]
\* lit in s[a:b]
Contains(s, a, b, lit) ==
    \E i \in a..(b - Len(lit)) : StartsWith(s, i, lit)
\* ^ under re.M
AtLineStart(s, i) == i = 0 \/ At(s, i - 1) = NL
\* contents.find('\n', i), Len(s) standing for -1 where the caller says so
FindNL(s, i) == SkipSet(s, i, Char \ {NL})
\* the smallest element of a non-empty set of integers
Min(S) == CHOOSE x \in S : \A y \in S : x <= y
Max(S) == CHOOSE x \in S : \A y \in S : x >= y

NoMatch == [ok |-> FALSE]

\* a local binding: F of the value x, x worked out once
With(x, F(_)) == F(x)


(***************************************************************************)
(* Entity and Junk (parser.py, classes Entity and Junk).                   *)
(***************************************************************************)
Digit == <<"0", "1", "2", "3", "4", "5", "6", "7", "8", "9">>
RECURSIVE Decimal(_)
\* '%d' % n, for n >= 0
Decimal(n) == IF n < 10 THEN <<Digit[n + 1]>>
              ELSE Decimal(n \div 10) \o <<Digit[(n % 10) + 1]>>
\* '_junk_%d_%d-%d' % (junkid, span[0], span[1])
JunkKey(id, span) ==
    <<"_", "j", "u", "n", "k", "_">> \o Decimal(id) \o <<"_">>
        \o Decimal(span[1]) \o <<"-">> \o Decimal(span[2])
\* Junk(ctx, span), built when the class counter is junkid: the counter is
\* raised first and the new value goes into the key
Junk(span, junkid) ==
    [junk |-> TRUE, span |-> span, key_span |-> <<span[1], span[1]>>,
     val_span |-> span, key |-> JunkKey(junkid + 1, span)]
\* Entity(ctx, pp, span, ..., key_span, val_span, ...); key is ctx.contents
\* sliced by key_span
Entity(s, span, key_span, val_span) ==
    [junk |-> FALSE, span |-> span, key_span |-> key_span,
     val_span |-> val_span, key |-> Slice(s, key_span[1], key_span[2])]
\* the None that getEntity returns when nothing is left
None == [none |-> TRUE]
IsNone(e) == "none" \in DOMAIN e

(***************************************************************************)
(* PropertiesParser (parser.py, 330-406).                                  *)
(***************************************************************************)
RECURSIVE PropComments(_, _)
\* ((?:[#!].*?\n\s*)*) of reKey, from i: where the comment block ends
PropComments(s, i) ==
    IF At(s, i) \in {"#", "!"}
    THEN LET j == FindNL(s, i + 1)
         IN  IF j < Len(s) THEN PropComments(s, SkipSet(s, j + 1, Space))
             ELSE i
    ELSE i

\* reKey.match(contents, pos), reKey =
\*   ^(\s*)((?:[#!].*?\n\s*)*)([^#!\s\n][^=:\n]*?)\s*[:=][ \t]*   (re.M)
PropReKey(s, pos) ==
    With(SkipSet(s, pos, Space), LAMBDA ws :
    With(PropComments(s, ws), LAMBDA c :
    \* the ends k of the lazy key [^=:\n]*? after which \s*[:=] matches
    With({k \in (c + 1)..Len(s) :
            /\ \A q \in (c + 1)..(k - 1) : At(s, q) \notin {"=", ":", NL}
            /\ At(s, SkipSet(s, k, Space)) \in {":", "="}}, LAMBDA ks :
    IF /\ AtLineStart(s, pos)
       /\ c < Len(s)
       /\ At(s, c) \notin ({"#", "!"} \cup Space)
       /\ ks # {}
    THEN With(Min(ks), LAMBDA k :
         [ok |-> TRUE, start |-> pos,
          end |-> SkipSet(s, SkipSet(s, k, Space) + 1, Blank),
          pre |-> <<pos, ws>>, precomment |-> <<ws, c>>,
          key |-> <<c, k>>])
    ELSE NoMatch)))

\* regex.search(contents, pos): the leftmost start at or after pos where the
\* pattern matches; Match is the pattern's match-at-position
ReSearch(Match(_, _), s, pos) ==
    LET starts == {p \in pos..Len(s) : Match(s, p).ok}
    IN  IF starts = {} THEN NoMatch ELSE Match(s, Min(starts))

\* '\n'-terminated comment lines and white space up to the end:
\* the greedy walk of \s*([#!].*\s*)* from i, lead being the comment leaders
RECURSIVE CommentRun(_, _, _)
CommentRun(s, i, lead) ==
    IF At(s, i) \in lead
    THEN CommentRun(s, SkipSet(s, SkipSet(s, i + 1, Dot), Space), lead)
    ELSE i

\* $ without re.M: at the end, or before a newline that ends the buffer
AtDollar(s, i) == i = Len(s) \/ (i = Len(s) - 1 /\ At(s, i) = NL)

\* reHeader.match(contents, pos), reHeader = ^\s*([#!].*\s*)+
PropReHeader(s, pos) ==
    LET ws == SkipSet(s, pos, Space)
    IN  IF pos = 0 /\ At(s, ws) \in {"#", "!"}
        THEN [ok |-> TRUE, start |-> pos, end |-> CommentRun(s, ws, {"#", "!"})]
        ELSE NoMatch

\* reFooter.match(contents, pos), reFooter = \s*([#!].*\s*)*$
\* the greedy walk stops before a character no alternative can consume, so
\* the pattern matches exactly when that walk ends where $ holds
PropReFooter(s, pos) ==
    LET e == CommentRun(s, SkipSet(s, pos, Space), {"#", "!"})
    IN  IF AtDollar(s, e) THEN [ok |-> TRUE, start |-> pos, end |-> e]
        ELSE NoMatch

\* 'http://mozilla.org/MPL/2.0/'
LicenseURL == <<"h", "t", "t", "p", ":", "/", "/", "m", "o", "z", "i", "l", "l",
                "a", ".", "o", "r", "g", "/", "M", "P", "L", "/", "2", ".",
                "0", "/">>
\* 'LICENSE BLOCK'
LicenseBlock == <<"L", "I", "C", "E", "N", "S", "E", " ", "B", "L", "O", "C", "K">>

\* PropertiesParser.getHeader: the header end (0 when there is no header)
PropGetHeader(s, offset) ==
    With(PropReHeader(s, offset), LAMBDA h :
    IF h.ok /\ (\/ Contains(s, h.start, h.end, LicenseURL)
                \/ Contains(s, h.start, h.end, LicenseBlock))
    THEN h.end ELSE offset)

\* self._escapedEnd.search(contents, offset, nextline), _escapedEnd = \\+$ :
\* the length of the match, -1 for None
EscapedEnd(s, offset, nextline) ==
    LET starts == {i \in offset..(nextline - 1) :
                     \A q \in i..(nextline - 1) : At(s, q) = BS}
    IN  IF starts = {} THEN -1 ELSE nextline - Min(starts)

\* a test that lets any run of backslashes carry the value on
EscapeNeverBreaks(n) == n = 0
\* the parity test of getEntity, line 373: the line ends the value
EscapeBreaks(n) == n % 2 = 0

RECURSIVE PropLines(_, _)
\* the while True loop of PropertiesParser.getEntity (362-374): reads the
\* value line by line from offset; yields endval and the new offset
PropLines(s, offset) ==
    LET nextline == FindNL(s, offset)
    IN  IF nextline = Len(s)
        THEN [endval |-> Len(s), offset |-> Len(s)]
        ELSE LET e == EscapedEnd(s, offset, nextline)
             IN  IF e = -1 \/ EscapeBreaks(e)
                 THEN [endval |-> nextline, offset |-> nextline + 1]
                 ELSE PropLines(s, nextline + 1)

\* self._trailingWS.search(contents, from, to), _trailingWS = [ \t]*$ :
\* the length ws.end() - ws.start() of the match
TrailingWS(s, from, to) ==
    LET dollar(i) == i = to \/ (i = to - 1 /\ At(s, i) = NL)
        run(i)    == Min({SkipSet(s, i, Blank), to})
        i0        == Min({i \in from..to : dollar(run(i))})
    IN  run(i0) - i0

\* PropertiesParser.getEntity(ctx, offset) with the Junk counter at junkid
PropGetEntity(s, offset, junkid) ==
    With(PropReKey(s, offset), LAMBDA m :
    IF m.ok
    THEN With(PropLines(s, m.end), LAMBDA l :
         [entity |-> Entity(s, <<m.start, l.offset>>, m.key,
                            <<m.end,
                              l.endval - TrailingWS(s, m.end, l.offset)>>),
          offset |-> l.offset, junkid |-> junkid])
    ELSE With(ReSearch(PropReKey, s, offset), LAMBDA f :
         IF f.ok
         THEN [entity |-> Junk(<<offset, f.start>>, junkid),
               offset |-> f.start, junkid |-> junkid + 1]
         ELSE [entity |-> None, offset |-> offset, junkid |-> junkid]))

(***************************************************************************)
(* DefinesParser (parser.py, 409-419).                                     *)
(***************************************************************************)
DefineLit == <<"#", "d", "e", "f", "i", "n", "e">>
\* #(?!define\s) at i
DefComment(s, i) ==
    /\ At(s, i) = "#"
    /\ ~(StartsWith(s, i, DefineLit) /\ At(s, i + 7) \in Space)

RECURSIVE DefCommentRun(_, _)
\* the greedy walk of (#(?!define\s).*\s*)* from i
DefCommentRun(s, i) ==
    IF DefComment(s, i)
    THEN DefCommentRun(s, SkipSet(s, SkipSet(s, i + 1, Dot), Space))
    ELSE i

\* (#define[ \t]+(\w+)[ \t]+(.*?))([ \t]*$\n?) at i, under re.M
DefDefine(s, i) ==
    LET b1  == SkipSet(s, i + 7, Blank)
        k   == SkipSet(s, b1, Word)
        b2  == SkipSet(s, k, Blank)
        eol == FindNL(s, b2)
        \* the lazy value ends where only blanks are left on the line
        e   == Min({v \in b2..eol : SkipSet(s, v, Blank) = eol})
    IN  IF StartsWith(s, i, DefineLit) /\ b1 > i + 7 /\ k > b1 /\ b2 > k
        THEN [ok |-> TRUE, end |-> IF eol < Len(s) THEN eol + 1 ELSE eol,
              key |-> <<b1, k>>, val |-> <<b2, e>>]
        ELSE NoMatch

RECURSIVE DefBody(_, _)
\* ((?:^#(?!define\s).*\s*)*)(#define...)(...) from i, in the order the
\* backtracking matcher tries: one more comment first, its .* as long as
\* possible, and the #define only when no comment leads to a match
DefBody(s, i) ==
    LET eol  == SkipSet(s, i + 1, Dot)
        more == {j \in (i + 1)..eol : DefBody(s, SkipSet(s, j, Space)).ok}
    IN  IF AtLineStart(s, i) /\ DefComment(s, i) /\ more # {}
        THEN DefBody(s, SkipSet(s, Max(more), Space))
        ELSE DefDefine(s, i)

\* reKey.match(contents, pos), reKey =
\*   ^(\s*)((?:^#(?!define\s).*\s*)*)(#define[ \t]+(\w+)[ \t]+(.*?))([ \t]*$\n?)
DefReKey(s, pos) ==
    LET m == DefBody(s, SkipSet(s, pos, Space))
    IN  IF AtLineStart(s, pos) /\ m.ok
        THEN [ok |-> TRUE, start |-> pos, end |-> m.end,
              key |-> m.key, val |-> m.val]
        ELSE NoMatch

\* reHeader.match(contents), reHeader = ^\s*(#(?!define\s).*\s*)*
DefReHeader(s) ==
    [ok |-> TRUE, start |-> 0, end |-> DefCommentRun(s, SkipSet(s, 0, Space))]

\* reFooter.match(contents, pos), reFooter = \s*(#(?!define\s).*\s*)*$ under
\* re.M: $ also holds before every newline, so when the greedy walk ends
\* before the end of the buffer the last \s* gives characters back until it
\* stands before a newline
DefReFooter(s, pos) ==
    LET e  == DefCommentRun(s, SkipSet(s, pos, Space))
        qs == {q \in pos..(e - 1) :
                 At(s, q) = NL /\ \A r \in q..(e - 1) : At(s, r) \in Space}
    IN  IF e = Len(s) THEN [ok |-> TRUE, start |-> pos, end |-> e]
        ELSE IF qs # {} THEN [ok |-> TRUE, start |-> pos, end |-> Max(qs)]
        ELSE NoMatch

(***************************************************************************)
(* IniParser (parser.py, 422-436).                                         *)
(***************************************************************************)
RECURSIVE IniHeadLines(_, _)
\* ((?:\s*|[;#].*)\n)* from the line start i: past every line that is white
\* space only or begins with ; or #
IniHeadLines(s, i) ==
    LET eol == FindNL(s, i)
    IN  IF /\ eol < Len(s)
           /\ \/ At(s, i) \in {";", "#"}
              \/ \A q \in i..(eol - 1) : At(s, q) \in Space
        THEN IniHeadLines(s, eol + 1)
        ELSE i

\* reHeader.match(contents), reHeader = ^((?:\s*|[;#].*)\n)*\[.+?\]\n  (re.M)
IniReHeader(s) ==
    LET p  == IniHeadLines(s, 0)
        ks == {k \in (p + 2)..(Len(s) - 2) :
                 /\ At(s, k) = "]" /\ At(s, k + 1) = NL
                 /\ \A q \in (p + 1)..(k - 1) : At(s, q) # NL}
    IN  IF At(s, p) = "[" /\ ks # {}
        THEN [ok |-> TRUE, start |-> 0, end |-> Min(ks) + 2]
        ELSE NoMatch

\* ((.+?)=(.*))(\n?) at i
IniKeyValue(s, i) ==
    LET ks  == {k \in (i + 1)..(Len(s) - 1) :
                  At(s, k) = "=" /\ \A q \in i..(k - 1) : At(s, q) # NL}
        k   == Min(ks)
        eol == FindNL(s, k + 1)
    IN  IF ks # {}
        THEN [ok |-> TRUE, end |-> IF eol < Len(s) THEN eol + 1 ELSE eol,
              key |-> <<i, k>>, val |-> <<k + 1, eol>>]
        ELSE NoMatch

RECURSIVE IniBody(_, _)
\* ((?:[;#].*\n\s*)*)((.+?)=(.*))(\n?) from i, in the order the backtracking
\* matcher tries: one more comment line first, its \s* as long as possible,
\* and the key only when no comment leads to a match
IniBody(s, i) ==
    LET eol  == FindNL(s, i + 1)
        more == {w \in (eol + 1)..SkipSet(s, eol + 1, Space) : IniBody(s, w).ok}
    IN  IF At(s, i) \in {";", "#"} /\ eol < Len(s) /\ more # {}
        THEN IniBody(s, Max(more))
        ELSE IniKeyValue(s, i)

\* reKey.match(contents, pos), reKey =
\*   (\s*)((?:[;#].*\n\s*)*)((.+?)=(.*))(\n?)
IniReKey(s, pos) ==
    LET ws == {w \in pos..SkipSet(s, pos, Space) : IniBody(s, w).ok}
    IN  IF ws # {}
        THEN LET m == IniBody(s, Max(ws))
             IN  [ok |-> TRUE, start |-> pos, end |-> m.end,
                  key |-> m.key, val |-> m.val]
        ELSE NoMatch

\* reFooter.match(contents, pos), reFooter = \s*([;#].*\s*)*$
IniReFooter(s, pos) ==
    LET e == CommentRun(s, SkipSet(s, pos, Space), {";", "#"})
    IN  IF AtDollar(s, e) THEN [ok |-> TRUE, start |-> pos, end |-> e]
        ELSE NoMatch

(***************************************************************************)
(* DTDParser (parser.py, 271-327).                                         *)
(***************************************************************************)
\* the byte order mark U+FEFF, as one character
BOM == "BOM"
\* [^-], and CharMinusDash as far as the model's characters go
NonDash == (Char \cup {BOM}) \ {"-"}
\* NameStartChar and NameChar as far as the model's characters go
NameStartChar == (Word \ {"0", "1", "2", "3"}) \cup {":", BOM}
NameChar == NameStartChar \cup {"-", ".", "0", "1", "2", "3"}
EntityLit == <<"<", "!", "E", "N", "T", "I", "T", "Y">>
SystemLit == <<"S", "Y", "S", "T", "E", "M">>

RECURSIVE XmlBody(_, _)
\* (?:-?[CharMinusDash])*?--> from p: the end of the comment, -1 for none
XmlBody(s, p) ==
    IF StartsWith(s, p, <<"-", "-", ">">>) THEN p + 3
    ELSE IF At(s, p) = "-"
    THEN IF At(s, p + 1) \in NonDash THEN XmlBody(s, p + 2) ELSE -1
    ELSE IF At(s, p) \in NonDash THEN XmlBody(s, p + 1)
    ELSE -1

\* XmlComment = <!--(?:-?[CharMinusDash])*?--> at i: its end, -1 for none
XmlComment(s, i) ==
    IF StartsWith(s, i, <<"<", "!", "-", "-">>) THEN XmlBody(s, i + 4) ELSE -1

RECURSIVE XmlComments(_, _)
\* (?:XmlComment\s*)* from i
XmlComments(s, i) ==
    LET e == XmlComment(s, i)
    IN  IF e = -1 THEN i ELSE XmlComments(s, SkipSet(s, e, Space))

\* Name at i: its end, i when there is no name
DTDName(s, i) ==
    IF At(s, i) \in NameStartChar THEN SkipSet(s, i + 1, NameChar) ELSE i

\* [ \t]*(?:XmlComment\s*)*\n? from i
DTDPost(s, i) ==
    LET c == XmlComments(s, SkipSet(s, i, Blank))
    IN  IF At(s, c) = NL THEN c + 1 ELSE c

\* (?P<val>\"[^\"]*\"|\'[^\']*\'?)\s*> at v: the end of val and the offset
\* after the > ; the unclosed form '... gives characters back until \s*> fits
DTDValue(s, v) ==
    LET dq == SkipSet(s, v + 1, (Char \cup {BOM}) \ {"\""})
        sq == SkipSet(s, v + 1, (Char \cup {BOM}) \ {"'"})
        gt(i) == At(s, SkipSet(s, i, Space)) = ">"
        js == {j \in (v + 1)..sq : At(s, j) # "'" /\ gt(j)}
    IN  IF At(s, v) = "\""
        THEN IF At(s, dq) = "\"" /\ gt(dq + 1)
             THEN [ok |-> TRUE, end |-> dq + 1,
                   after |-> SkipSet(s, dq + 1, Space) + 1]
             ELSE NoMatch
        ELSE IF At(s, v) = "'"
        THEN IF At(s, sq) = "'" /\ gt(sq + 1)
             THEN [ok |-> TRUE, end |-> sq + 1,
                   after |-> SkipSet(s, sq + 1, Space) + 1]
             ELSE IF js # {}
             THEN [ok |-> TRUE, end |-> Max(js),
                   after |-> SkipSet(s, Max(js), Space) + 1]
             ELSE NoMatch
        ELSE NoMatch

\* reKey.match(contents, pos), reKey = (?:(?P<pre>\s*)
\*   (?P<precomment>(?:XmlComment\s*)*)
\*   (?P<entity><!ENTITY\s+(?P<key>Name)\s+(?P<val>...)\s*>)
\*   (?P<post>[ \t]*(?:XmlComment\s*)*\n?)?)
DTDReKey(s, pos) ==
    With(XmlComments(s, SkipSet(s, pos, Space)), LAMBDA c :
    With(SkipSet(s, c + 8, Space), LAMBDA w1 :
    With(DTDName(s, w1), LAMBDA k :
    With(SkipSet(s, k, Space), LAMBDA w2 :
    With(DTDValue(s, w2), LAMBDA v :
    IF StartsWith(s, c, EntityLit) /\ w1 > c + 8 /\ k > w1 /\ w2 > k /\ v.ok
    THEN [ok |-> TRUE, start |-> pos, end |-> DTDPost(s, v.after),
          key |-> <<w1, k>>, val |-> <<w2, v.end>>]
    ELSE NoMatch)))))

\* rePE.match(contents, pos), rePE = (?:(\s*)((?:XmlComment\s*)*)
\*   (<!ENTITY\s+%\s+(Name)\s+SYSTEM\s+(\"[^\"]*\"|\'[^\']*\')\s*>\s*%Name;)
\*   ([ \t]*(?:XmlComment\s*)*\n?)?)
DTDRePE(s, pos) ==
    With(XmlComments(s, SkipSet(s, pos, Space)), LAMBDA c :
    With(SkipSet(s, c + 8, Space), LAMBDA w1 :
    With(SkipSet(s, w1 + 1, Space), LAMBDA w2 :
    With(DTDName(s, w2), LAMBDA k :
    With(SkipSet(s, k, Space), LAMBDA w3 :
    With(SkipSet(s, w3 + 6, Space), LAMBDA w4 :
    With(At(s, w4), LAMBDA q :
    With(SkipSet(s, w4 + 1, (Char \cup {BOM}) \ {q}), LAMBDA ve :
    With(SkipSet(s, ve + 1, Space), LAMBDA gt :
    With(SkipSet(s, gt + 1, Space), LAMBDA pc :
    With(DTDName(s, pc + 1), LAMBDA n2 :
    IF /\ StartsWith(s, c, EntityLit) /\ w1 > c + 8
       /\ At(s, w1) = "%" /\ w2 > w1 + 1
       /\ k > w2 /\ w3 > k
       /\ StartsWith(s, w3, SystemLit) /\ w4 > w3 + 6
       /\ q \in {"\"", "'"} /\ At(s, ve) = q
       /\ At(s, gt) = ">"
       /\ At(s, pc) = "%" /\ n2 > pc + 1 /\ At(s, n2) = ";"
    THEN [ok |-> TRUE, start |-> pos, end |-> DTDPost(s, n2 + 1),
          key |-> <<w2, k>>, val |-> <<w4, ve + 1>>]
    ELSE NoMatch)))))))))))

RECURSIVE DashTail(_, _)
\* ([^-]+-)*[^-]+--> from p: its end, -1 for none
DashTail(s, p) ==
    LET r == SkipSet(s, p, NonDash)
    IN  IF r = p THEN -1
        ELSE IF StartsWith(s, r, <<"-", "-", ">">>) THEN r + 3
        ELSE IF At(s, r) = "-" THEN DashTail(s, r + 1)
        ELSE -1

\* reHeader.match(contents), reHeader = ^\ufeff?(\s*<!--.*
\*   (http://mozilla.org/MPL/2.0/|LICENSE BLOCK)([^-]+-)*[^-]+-->)?  (re.S):
\* the greedy .* takes the last license marker after which the tail matches
DTDReHeader(s) ==
    LET b  == IF At(s, 0) = BOM THEN 1 ELSE 0
        c  == SkipSet(s, b, Space)
        tl(m) == IF StartsWith(s, m, LicenseURL)
                 THEN DashTail(s, m + Len(LicenseURL))
                 ELSE IF StartsWith(s, m, LicenseBlock)
                 THEN DashTail(s, m + Len(LicenseBlock))
                 ELSE -1
        ms == {m \in (c + 4)..Len(s) : tl(m) # -1}
    IN  IF StartsWith(s, c, <<"<", "!", "-", "-">>) /\ ms # {}
        THEN [ok |-> TRUE, start |-> 0, end |-> tl(Max(ms))]
        ELSE [ok |-> TRUE, start |-> 0, end |-> b]

RECURSIVE DTDFootRun(_, _)
\* the greedy walk of (<!--([^-]+-)*[^-]+-->\s*)* from i
DTDFootRun(s, i) ==
    LET e == IF StartsWith(s, i, <<"<", "!", "-", "-">>)
             THEN DashTail(s, i + 4) ELSE -1
    IN  IF e = -1 THEN i ELSE DTDFootRun(s, SkipSet(s, e, Space))

\* reFooter.match(contents, pos), reFooter = \s*(<!--([^-]+-)*[^-]+-->\s*)*$
DTDReFooter(s, pos) ==
    LET e == DTDFootRun(s, SkipSet(s, pos, Space))
    IN  IF AtDollar(s, e) THEN [ok |-> TRUE, start |-> pos, end |-> e]
        ELSE NoMatch

(***************************************************************************)
(* Parser: the grammar's patterns, __iter__ and parse (parser.py 149-247). *)
(***************************************************************************)
Grammars == {"dtd", "properties", "ini", "defines"}

\* self.reKey.match(contents, pos) of grammar g
ReKey(g, s, pos) ==
    CASE g = "properties" -> PropReKey(s, pos)
      [] g = "defines"    -> DefReKey(s, pos)
      [] g = "ini"        -> IniReKey(s, pos)
      [] g = "dtd"        -> DTDReKey(s, pos)

\* self.reFooter.match(contents, pos) of grammar g
ReFooter(g, s, pos) ==
    CASE g = "properties" -> PropReFooter(s, pos)
      [] g = "defines"    -> DefReFooter(s, pos)
      [] g = "ini"        -> IniReFooter(s, pos)
      [] g = "dtd"        -> DTDReFooter(s, pos)

\* self.reHeader.match(contents) of grammar g
ReHeader(g, s) ==
    CASE g = "defines" -> DefReHeader(s)
      [] g = "ini"     -> IniReHeader(s)
      [] g = "dtd"     -> DTDReHeader(s)

\* Parser.getHeader(contents, offset) (218-224): the offset after the header
ParserGetHeader(g, s, offset) ==
    With(ReHeader(g, s), LAMBDA h : IF h.ok THEN h.end ELSE offset)

\* self.getHeader(contents, offset), by the class of the parser
GetHeader(g, s, offset) ==
    CASE g = "properties" -> PropGetHeader(s, offset)
      [] OTHER            -> ParserGetHeader(g, s, offset)

\* self.createEntity(ctx, m): DTDParser.createEntity (321-327) leaves the
\* quotes out of the value span, Parser.createEntity (245-247) takes the
\* groups as they are
CreateEntity(g, s, m) ==
    IF g = "dtd"
    THEN Entity(s, <<m.start, m.end>>, m.key, <<m.val[1] + 1, m.val[2] - 1>>)
    ELSE Entity(s, <<m.start, m.end>>, m.key, m.val)

\* Parser.getEntity(ctx, offset) (226-243)
ParserGetEntity(g, s, offset, junkid) ==
    With(ReKey(g, s, offset), LAMBDA m :
    IF m.ok
    THEN [entity |-> CreateEntity(g, s, m),
          offset |-> m.end, junkid |-> junkid]
    ELSE With(ReFooter(g, s, offset), LAMBDA f :
    IF f.ok /\ f.end > offset
    THEN [entity |-> None, offset |-> offset, junkid |-> junkid]
    ELSE With(ReSearch(LAMBDA x, p : ReKey(g, x, p), s, offset), LAMBDA n :
    IF n.ok
    THEN [entity |-> Junk(<<offset, n.start>>, junkid),
          offset |-> n.start, junkid |-> junkid + 1]
    ELSE [entity |-> None, offset |-> offset, junkid |-> junkid])))

\* DTDParser.getEntity(ctx, offset) (304-319): a parameter entity where
\* Parser.getEntity found Junk (the Junk counter stays raised) or nothing
DTDGetEntity(s, offset, junkid) ==
    With(ParserGetEntity("dtd", s, offset, junkid), LAMBDA r :
    IF IsNone(r.entity) \/ r.entity.junk
    THEN With(DTDRePE(s, offset), LAMBDA m :
         IF m.ok
         THEN [entity |-> Entity(s, <<m.start, m.end>>, m.key, m.val),
               offset |-> m.end, junkid |-> r.junkid]
         ELSE r)
    ELSE r)

\* self.getEntity(ctx, offset), by the class of the parser
GetEntity(g, s, offset, junkid) ==
    CASE g = "properties" -> PropGetEntity(s, offset, junkid)
      [] g = "dtd"        -> DTDGetEntity(s, offset, junkid)
      [] OTHER            -> ParserGetEntity(g, s, offset, junkid)

\* the tail of Parser.__iter__ (210-215): the footer, and the Junk that is
\* yielded for what is left after it
IterTail(g, s, offset, junkid) ==
    With(ReFooter(g, s, offset), LAMBDA f :
    With(IF f.ok THEN f.end ELSE offset, LAMBDA off2 :
    [footer |-> Slice(s, offset, off2),
     items  |-> IF Len(s) > off2
                THEN <<Junk(<<off2, Len(s)>>, junkid)>> ELSE <<>>,
     junkid |-> IF Len(s) > off2 THEN junkid + 1 ELSE junkid]))

RECURSIVE IterEntities(_, _, _, _, _)
\* the while entity loop of Parser.__iter__ (206-209)
IterEntities(g, s, offset, junkid, acc) ==
    With(GetEntity(g, s, offset, junkid), LAMBDA r :
    IF IsNone(r.entity)
    THEN [items |-> acc, offset |-> r.offset, junkid |-> r.junkid]
    ELSE IterEntities(g, s, r.offset, r.junkid, Append(acc, r.entity)))

\* the m of Parser.parse: m[e.key] = len(l) for each e in turn, so a key
\* maps to the 0-based index of its last occurrence
KeyMap(l) ==
    [k \in {l[i].key : i \in 1..Len(l)} |->
        Max({i \in 1..Len(l) : l[i].key = k}) - 1]

\* Parser.parse() on contents s with the Junk counter at junkid
Parse(g, s, junkid) ==
    With(GetHeader(g, s, 0), LAMBDA h :
    With(IterEntities(g, s, h, junkid, <<>>), LAMBDA it :
    With(IterTail(g, s, it.offset, it.junkid), LAMBDA tl :
    With(it.items \o tl.items, LAMBDA l :
    [header |-> Slice(s, 0, h), l |-> l, m |-> KeyMap(l),
     footer |-> tl.footer, junkid |-> tl.junkid]))))

\* codecs.getdecoder(self.encoding)(contents) of Parser.readContents, for
\* utf-8 over a byte alphabet of ASCII, the bytes EF BB BF of the byte order
\* mark and the byte 0xFF, which no UTF-8 text holds: an ASCII byte decodes
\* to its character, EF BB BF to U+FEFF, anything else raises
BomBytes == <<"EF", "BB", "BF">>
\* whether the byte at offset i is one the decoder takes: an ASCII byte, or
\* a byte of a whole EF BB BF
ByteOk(bytes, i) ==
    LET b == At(bytes, i)
    IN  /\ b # BadByte
        /\ b = "EF" => (At(bytes, i + 1) = "BB" /\ At(bytes, i + 2) = "BF")
        /\ b = "BB" => (At(bytes, i - 1) = "EF" /\ At(bytes, i + 1) = "BF")
        /\ b = "BF" => (At(bytes, i - 2) = "EF" /\ At(bytes, i - 1) = "BB")
Decodable(bytes) == \A i \in 0..(Len(bytes) - 1) : ByteOk(bytes, i)
Decode(bytes) ==
    LET first == SelectSeq(bytes, LAMBDA b : b \notin {"BB", "BF"})
    IN  [i \in 1..Len(first) |-> IF first[i] = "EF" THEN BOM ELSE first[i]]
\* the utf-8 encoding codecs.open(merge_file, ..., encoding) writes with
Encode(text) ==
    LET at(i) == i + 2 * Cardinality({k \in 1..(i - 1) : text[k] = BOM})
        n == at(Len(text) + 1) - 1
    IN  [j \in 1..n |->
            LET i == CHOOSE k \in 1..Len(text) : at(k) <= j /\ j < at(k + 1)
            IN  IF text[i] = BOM THEN BomBytes[j - at(i) + 1] ELSE text[i]]

(***************************************************************************)
(* Strings as Python 2 orders them, and the value of an entity.            *)
(***************************************************************************)
Lower == <<"a", "b", "c", "d", "e", "f", "g", "h", "i", "j", "k", "l", "m",
           "n", "o", "p", "q", "r", "s", "t", "u", "v", "w", "x", "y", "z">>
Upper == <<"A", "B", "C", "D", "E", "F", "G", "H", "I", "J", "K", "L", "M",
           "N", "O", "P", "Q", "R", "S", "T", "U", "V", "W", "X", "Y", "Z">>
IndexOf(seq, c) == CHOOSE i \in 1..Len(seq) : seq[i] = c
Elems(seq) == {seq[i] : i \in 1..Len(seq)}
\* ord(c), the code point of a character
Ord(c) ==
    CASE c \in Elems(Lower) -> 96 + IndexOf(Lower, c)
      [] c \in Elems(Upper) -> 64 + IndexOf(Upper, c)
      [] c \in Elems(Digit) -> 47 + IndexOf(Digit, c)
      [] c = "\t" -> 9   [] c = NL -> 10    [] c = "\r" -> 13
      [] c = " " -> 32   [] c = "!" -> 33   [] c = "\"" -> 34
      [] c = "#" -> 35   [] c = "%" -> 37   [] c = "'" -> 39
      [] c = "-" -> 45   [] c = "." -> 46   [] c = "/" -> 47
      [] c = ":" -> 58   [] c = ";" -> 59   [] c = "<" -> 60
      [] c = "=" -> 61   [] c = ">" -> 62   [] c = "[" -> 91
      [] c = BS -> 92    [] c = "]" -> 93   [] c = "_" -> 95
      [] c = BOM -> 65279
      [] OTHER -> 0
\* unichr(n); a code point that no character of the buffers has is written
\* U+n, and is neither a word character nor white space
Unichr(n) ==
    LET known == {c \in Elems(Lower) \cup Elems(Upper) \cup Elems(Digit)
                         \cup Char \cup {"\r", BOM} : Ord(c) = n}
    IN  IF known # {} THEN CHOOSE c \in known : TRUE
        ELSE "U+" \o ToString(n)

\* a < b for two unicode strings: by code point, a proper prefix first
StrLess(a, b) ==
    \E i \in 1..(Len(b)) :
        /\ i <= Len(a) + 1
        /\ \A k \in 1..(i - 1) : a[k] = b[k]
        /\ (i = Len(a) + 1 \/ Ord(a[i]) < Ord(b[i]))

RECURSIVE Sorted(_)
\* sorted(S) of a set of strings, as a list
Sorted(S) ==
    IF S = {} THEN <<>>
    ELSE LET least == CHOOSE x \in S : \A y \in S \ {x} : StrLess(x, y)
         IN  <<least>> \o Sorted(S \ {least})

HexDigits == <<"0", "1", "2", "3", "4", "5", "6", "7", "8", "9",
               "a", "b", "c", "d", "e", "f">>
HexUpper == <<"A", "B", "C", "D", "E", "F">>
IsHex(c) == c \in Elems(HexDigits) \cup Elems(HexUpper)
HexVal(c) == IF c \in Elems(HexDigits) THEN IndexOf(HexDigits, c) - 1
             ELSE IndexOf(HexUpper, c) + 9
RECURSIVE HexInt(_)
\* int(digits, 16)
HexInt(digits) ==
    IF digits = <<>> THEN 0
    ELSE 16 * HexInt(SubSeq(digits, 1, Len(digits) - 1))
             + HexVal(digits[Len(digits)])
\* PropertiesParser.known_escapes.get(c, c)
KnownEscape(c) ==
    CASE c = "n" -> NL [] c = "r" -> "\r" [] c = "t" -> "\t" [] OTHER -> c

RECURSIVE Unescape(_, _)
\* PropertiesParser.postProcessValue: escape.sub(unescape, val), from i on.
\* A backslash takes u and up to four hex digits, or a newline and the white
\* space after it, or any one character but a newline; a backslash with
\* nothing after it stays
Unescape(val, i) ==
    IF i >= Len(val) THEN <<>>
    ELSE IF At(val, i) # BS \/ i + 1 >= Len(val)
    THEN <<At(val, i)>> \o Unescape(val, i + 1)
    ELSE IF At(val, i + 1) = "u" /\ IsHex(At(val, i + 2))
    THEN LET e == Min({j \in (i + 3)..(i + 6) :
                          j = i + 6 \/ ~IsHex(At(val, j))})
         IN  <<Unichr(HexInt(Slice(val, i + 2, e)))>> \o Unescape(val, e)
    ELSE IF At(val, i + 1) = NL
    THEN Unescape(val, SkipSet(val, i + 2, Space))
    ELSE <<KnownEscape(At(val, i + 1))>> \o Unescape(val, i + 2)

\* Parser.postProcessValue (197-198), which only PropertiesParser overrides
PostProcessValue(g, val) ==
    IF g = "properties" THEN Unescape(val, 0) ELSE val

\* Entity.val / Junk.val of item e of a parse of s by the parser g
Val(g, s, e) ==
    IF e.junk THEN Slice(s, e.span[1], e.span[2])
    ELSE PostProcessValue(g, Slice(s, e.val_span[1], e.val_span[2]))
\* Entity.all / Junk.all
All(s, e) == Slice(s, e.span[1], e.span[2])

(***************************************************************************)
(* ContentComparer.countWords (compare.py, 401-410).                       *)
(***************************************************************************)
\* <br\s*/?> matched at i: the end of the match, or -1
BrEnd(s, i) ==
    IF ~StartsWith(s, i, <<"<", "b", "r">>) THEN -1
    ELSE LET j == SkipSet(s, i + 3, Space)
         IN  IF At(s, j) = "/" /\ At(s, j + 1) = ">" THEN j + 2
             ELSE IF At(s, j) = ">" THEN j + 1
             ELSE -1
\* \w under re.U, over the characters of the model
IsWord(c) == c \in Elems(Lower) \cup Elems(Upper) \cup Elems(Digit) \cup {"_"}
\* </?\w+.*?> matched at i: the end of the match, or -1
SgmlEnd(s, i) ==
    IF At(s, i) # "<" THEN -1
    ELSE LET j == IF At(s, i + 1) = "/" THEN i + 2 ELSE i + 1
         IN  IF ~IsWord(At(s, j)) THEN -1
             ELSE LET k == Min({p \in (j + 1)..Len(s) :
                                  p = Len(s) \/ At(s, p) \in {">", NL}})
                  IN  IF At(s, k) = ">" THEN k + 1 ELSE -1

RECURSIVE ReSub(_, _, _, _)
\* pattern.sub(repl, s) from i on, End(_, _) the pattern matched at an offset
ReSub(End(_, _), repl, s, i) ==
    IF i >= Len(s) THEN <<>>
    ELSE LET e == End(s, i)
         IN  IF e < 0 THEN <<At(s, i)>> \o ReSub(End, repl, s, i + 1)
             ELSE repl \o ReSub(End, repl, s, e)

\* len(value.split())
SplitLen(s) ==
    Cardinality({i \in 1..Len(s) :
                    s[i] \notin Space /\ (i = 1 \/ s[i - 1] \in Space)})

countWords(value) ==
    SplitLen(ReSub(SgmlEnd, <<>>, ReSub(BrEnd, <<NL>>, value, 0), 0))

(***************************************************************************)
(* AddRemove (compare.py, 111-133).                                        *)
(***************************************************************************)
\* set(l for l in keys) of a list of keys
SetOf(keys) == {keys[i] : i \in 1..Len(keys)}
\* the tags with delete and add the other way round
TagSwapped(item, left, right) ==
    IF item \in left /\ item \in right THEN "equal"
    ELSE IF item \in left THEN "add"
    ELSE "delete"
\* the tag __iter__ gives an item
Tag(item, left, right) ==
    IF item \in left /\ item \in right THEN "equal"
    ELSE IF item \in left THEN "delete"
    ELSE "add"
\* list(iter(ar)): the pairs AddRemove.__iter__ yields, in order
AddRemoveIter(left, right) ==
    LET items == Sorted(left \cup right)
    IN  [i \in 1..Len(items) |-> <<Tag(items[i], left, right), items[i]>>]

(***************************************************************************)
(* Observer (compare.py, 136-221), built with file_stats left False.       *)
(***************************************************************************)
EmptyMap == [k \in {} |-> 0]
\* d[k] of a defaultdict without creating the entry, dflt its default
Get(d, k, dflt) == IF k \in DOMAIN d THEN d[k] ELSE dflt
\* d after d[k] = v
Put(d, k, v) == [x \in DOMAIN d \cup {k} |-> IF x = k THEN v ELSE d[x]]

Verdicts == {"error", "warning", "ignore", "report"}
\* self.filter(file): a filter is a table of the verdicts the callable gives
FilterFile(filter) == filter.file
\* self.filter(file, data) and, for the key '', self.filter(file, entity='')
FilterEntity(filter, key) ==
    IF key = <<>> THEN filter.stats
    ELSE IF key = filter.key THEN filter.odd
    ELSE filter.ent

\* Observer.__init__, filter None or a table
Observer(filter) ==
    [filter |-> filter, summary |-> EmptyMap, details |-> EmptyMap]

\* self.summary[locale][category] += value
SummaryAdd(summary, locale, category, value) ==
    LET row == Get(summary, locale, EmptyMap)
    IN  Put(summary, locale,
            Put(row, category, Get(row, category, 0) + value))
\* self.details[file].append(item)
DetailsAppend(details, file, item) ==
    Put(details, file.name, Append(Get(details, file.name, <<>>), item))

\* Observer.notify: the observer afterwards and the verdict returned
ObserverNotify(o, category, file, data) ==
    IF category \in {"missingFile", "obsoleteFile"}
    THEN LET rv == IF IsNone(o.filter) THEN "error" ELSE FilterFile(o.filter)
         IN  [rv |-> rv,
              o |-> IF rv # "ignore"
                    THEN [o EXCEPT !.details = DetailsAppend(@, file,
                              [category |-> category, data |-> <<rv>>])]
                    ELSE o]
    ELSE IF category \in {"missingEntity", "obsoleteEntity"}
    THEN LET rv == IF IsNone(o.filter) THEN "error"
                   ELSE FilterEntity(o.filter, data)
         IN  [rv |-> rv,
              o |-> IF rv = "ignore" THEN o
                    ELSE [o EXCEPT !.details = DetailsAppend(@, file,
                              [category |-> category, data |-> data])]]
    ELSE [rv |-> "error",
          o |-> [o EXCEPT
                   !.details = DetailsAppend(@, file,
                                   [category |-> category, data |-> data]),
                   !.summary = SummaryAdd(@, file.locale,
                                   category \o "s", 1)]]

RECURSIVE AddStats(_, _, _)
\* the loop of Observer.updateStats over the stats, a list of pairs
AddStats(summary, locale, stats) ==
    IF stats = <<>> THEN summary
    ELSE AddStats(SummaryAdd(summary, locale, Head(stats)[1], Head(stats)[2]),
                  locale, Tail(stats))
\* Observer.updateStats
ObserverUpdateStats(o, file, stats) ==
    IF ~IsNone(o.filter) /\ FilterEntity(o.filter, <<>>) = "ignore" THEN o
    ELSE [o EXCEPT !.summary = AddStats(@, file.locale, stats)]

\* an expression that gave the value v, and one that raised instead
Returned(v) == [raises |-> "", value |-> v]
Raises(exception) == [raises |-> exception, value |-> 0]
\* a / b of two ints in Python 2: the floor of the quotient, and a
\* ZeroDivisionError when b is 0
IntDiv(a, b) ==
    IF b = 0 THEN Raises("ZeroDivisionError") ELSE Returned(a \div b)
\* the total that toExhibit (236-239) and serialize (307-310) sum up from
\* the summary of one locale
Total(summary) ==
    Get(summary, "changed", 0) + Get(summary, "unchanged", 0)
        + Get(summary, "report", 0) + Get(summary, "missing", 0)
        + Get(summary, "missingInFiles", 0)
\* ('changed' in summary and summary['changed'] * 100) or 0
ChangedTimes100(summary) ==
    IF "changed" \in DOMAIN summary /\ summary["changed"] * 100 # 0
    THEN summary["changed"] * 100
    ELSE 0
\* item['completion'] of Observer.toExhibit for the summary of one locale
toExhibitCompletion(summary) ==
    IntDiv(ChangedTimes100(summary), Total(summary))
\* the rate Observer.serialize prints as '%d%% of entries changed'
serializeRate(summary) ==
    IF Total(summary) # 0
    THEN IntDiv(ChangedTimes100(summary), Total(summary))
    ELSE Returned(0)

(***************************************************************************)
(* ContentComparer (compare.py, 322-555).  cc holds its observers and its  *)
(* stat_observers.                                                         *)
(***************************************************************************)
\* observer.notify(category, file, data) for each observer of a list
NotifyAll(obs, category, file, data) ==
    With([i \in 1..Len(obs) |-> ObserverNotify(obs[i], category, file, data)],
         LAMBDA each :
    [o   |-> [i \in 1..Len(obs) |-> each[i].o],
     rvs |-> [i \in 1..Len(obs) |-> each[i].rv]])

\* what ContentComparer.notify returns for the set rvs of the observers'
\* verdicts with every verdict the same
AggregateAny(rvs) ==
    IF \A rv \in rvs : rv = "ignore" THEN "ignore"
    ELSE IF Cardinality(rvs \ {"ignore"}) = 1
    THEN CHOOSE rv \in rvs \ {"ignore"} : TRUE
    ELSE "AssertionError"
\* what ContentComparer.notify returns for the set rvs of the observers'
\* verdicts (383-392), AssertionError when its assert fails
Aggregate(rvs) ==
    IF \A rv \in rvs : rv = "ignore" THEN "ignore"
    ELSE IF "error" \in rvs THEN "error"
    ELSE IF Cardinality(rvs \ {"ignore"}) = 1
    THEN CHOOSE rv \in rvs \ {"ignore"} : TRUE
    ELSE "AssertionError"

\* ContentComparer.notify: the comparer afterwards, the verdict, and the
\* record of the call
Notify(cc, category, file, data) ==
    With(NotifyAll(cc.observers, category, file, data), LAMBDA first :
    With(Aggregate(SetOf(first.rvs)), LAMBDA rv :
    [cc |-> [observers |-> first.o,
             stat_observers |->
                IF \A i \in 1..Len(first.rvs) : first.rvs[i] = "ignore"
                THEN cc.stat_observers
                ELSE NotifyAll(cc.stat_observers, category, file, data).o],
     rv |-> rv,
     event |-> [call |-> "notify", category |-> category,
                file |-> file.name, data |-> data, rvs |-> first.rvs,
                rv |-> rv]]))

\* ContentComparer.updateStats
UpdateStats(cc, file, stats) ==
    [observers |-> [i \in 1..Len(cc.observers) |->
                       ObserverUpdateStats(cc.observers[i], file, stats)],
     stat_observers |-> [i \in 1..Len(cc.stat_observers) |->
                       ObserverUpdateStats(cc.stat_observers[i], file, stats)]]

\* Context.lines(p)[0]: the 1-based line and column of offset p
Lines(s, p) ==
    LET ends == {i \in 1..Len(s) : s[i] = NL /\ i <= p}
        line == Cardinality(ends)
    IN  <<1 + line, 1 + p - (IF line > 0 THEN Max(ends) ELSE 0)>>

\* ensureNewline of merge
ensureNewline(s) == IF s # <<>> /\ s[Len(s)] = NL THEN s ELSE s \o <<NL>>

\* a sort that leaves the skips in the order they arrived in
SortByArrival(skips) == skips

RECURSIVE SortBySpan(_)
\* skips.sort(key=lambda s: s.span[0]), a stable sort
SortBySpan(skips) ==
    IF skips = <<>> THEN <<>>
    ELSE LET least == Min({skips[i].span[1] : i \in 1..Len(skips)})
             at == Min({i \in 1..Len(skips) : skips[i].span[1] = least})
         IN  <<skips[at]>> \o
             SortBySpan(SubSeq(skips, 1, at - 1)
                            \o SubSeq(skips, at + 1, Len(skips)))

RECURSIVE CopySkipping(_, _, _)
\* the loop of merge that writes ctx.contents without the skipped spans
CopySkipping(contents, skips, offset) ==
    IF skips = <<>> THEN Slice(contents, offset, Len(contents))
    ELSE Slice(contents, offset, Head(skips).span[1])
             \o CopySkipping(contents, Tail(skips), Head(skips).span[2])

RECURSIVE Join(_)
\* ''.join(texts)
Join(texts) == IF texts = <<>> THEN <<>> ELSE Head(texts) \o Join(Tail(texts))

\* a canMerge that every parser has True
canMergeAlways(g) == TRUE
\* Parser.canMerge of the grammar's parser
canMerge(g) == g # "defines"

\* the texts merge appends, without the '\n' in front
trailingBare(ref, missing, kept) ==
    [i \in 1..Len(missing) |->
        All(ref.contents, ref.l[ref.m[missing[i]] + 1])]
    \o [i \in 1..Len(kept) |->
        All(ref.contents, ref.l[ref.m[kept[i].key] + 1])]
\* the trailing of merge (349-352): a '\n', the reference text of each
\* missing key, the reference text of each skipped item that is no Junk
trailing(ref, missing, kept) ==
    <<<<NL>>>>
    \o [i \in 1..Len(missing) |->
           All(ref.contents, ref.l[ref.m[missing[i]] + 1])]
    \o [i \in 1..Len(kept) |->
           All(ref.contents, ref.l[ref.m[kept[i].key] + 1])]

\* ContentComparer.merge: the bytes of the merge file afterwards.  ref is the
\* parse of the reference with its contents, missing the missing keys, skips
\* the skipped items of the localized contents
Merge(g, ref, ref_bytes, l10n_bytes, missing, skips, contents) ==
    IF ~canMerge(g) THEN ref_bytes
    ELSE LET sorted == SortBySpan(skips)
             texts == trailing(ref, missing,
                               SelectSeq(sorted, LAMBDA e : ~e.junk))
             tail == Join([i \in 1..Len(texts) |-> ensureNewline(texts[i])])
         IN  (IF skips # <<>>
              THEN Encode(CopySkipping(contents, sorted, 0))
              ELSE l10n_bytes) \o Encode(tail)

\* parser.getParser(path): the grammar of the parser the path's extension
\* selects, UserWarning when none does
getParser(file) ==
    CASE file.ext = "dtd" -> "dtd"
      [] file.ext = "properties" -> "properties"
      [] file.ext = "ini" -> "ini"
      [] file.ext = "inc" -> "defines"
      [] OTHER -> "UserWarning"

\* the offset of the byte the utf-8 decoder stops at
DecodeFailsAt(bytes) ==
    Min({i \in 0..(Len(bytes) - 1) : ~ByteOk(bytes, i)})
\* str(e) of the UnicodeDecodeError that readContents raises on bytes
DecodeError(bytes) ==
    LET p == DecodeFailsAt(bytes)
    IN  <<"'utf8' codec can't decode byte ", At(bytes, p), " in position ",
          ToString(p)>>

\* a message that gives the start of the Junk for its end as well
UnparsedMessageStart(s, junk) ==
    LET from == Lines(s, junk.span[1])
    IN  <<"Unparsed content \"">> \o All(s, junk)
            \o <<"\" from line ", ToString(from[1]), " column ",
                 ToString(from[2]), " to line ", ToString(from[1]), " column ",
                 ToString(from[2])>>
\* the message compare reports a Junk of the localized contents s with
UnparsedMessage(s, junk) ==
    LET from == Lines(s, junk.span[1])
        to == Lines(s, junk.span[2])
    IN  <<"Unparsed content \"">> \o All(s, junk)
            \o <<"\" from line ", ToString(from[1]), " column ",
                 ToString(from[2]), " to line ", ToString(to[1]), " column ",
                 ToString(to[2])>>

\* keyRE.match(entity), which looks at the start of the key only
keyREAtStart(entity) ==
    /\ Len(entity) >= 3
    /\ entity[1] \in {"k", "K"} /\ entity[2] = "e" /\ entity[3] = "y"
\* keyRE.search(entity), keyRE being [kK]ey
keyRE(entity) ==
    \E i \in 1..(Len(entity) - 2) :
        entity[i] \in {"k", "K"} /\ entity[i + 1] = "e" /\ entity[i + 2] = "y"

\* checker.check(refent, l10nent) as a list, for the checker getChecker
\* gives: None, or one that reports its results for the entity of one key
CheckerCheck(checker, refent, l10nent) ==
    IF IsNone(checker) \/ refent.key # checker.key THEN <<>>
    ELSE checker.results

\* the line and column compare gives a checker result at pos, a tuple of
\* line and column or of one offset into the value (498-507)
CheckPosition(s, l10nent, pos) ==
    IF Len(pos) = 2
    THEN LET vp == Lines(s, l10nent.val_span[1])
         IN  IF pos[1] = 1 THEN <<vp[1], vp[2] + pos[2]>>
             ELSE <<vp[1] + pos[1] - 1, pos[2]>>
    ELSE Lines(s, l10nent.val_span[1] + pos[1])

RECURSIVE RunChecks(_, _, _, _, _)
\* the for loop over checker.check(refent, l10nent) (495-513), acc the
\* locals of compare
RunChecks(c, acc, refent, l10nent, results) ==
    IF results = <<>> \/ acc.raised THEN acc
    ELSE
    With(Head(results), LAMBDA r :
    With(CheckPosition(c.l10n.contents, l10nent, r.pos), LAMBDA at :
    With(Notify(acc.cc, r.tp, c.l10n_file,
                <<r.msg, " at line ", ToString(at[1]), ", column ",
                  ToString(at[2]), " for ">> \o refent.key), LAMBDA n :
    RunChecks(c,
        [acc EXCEPT
           !.skips = IF r.tp = "error" /\ c.merge_file
                     THEN Append(@, l10nent) ELSE @,
           !.cc = n.cc,
           !.log = Append(@, n.event),
           !.raised = n.rv = "AssertionError"],
        refent, l10nent, Tail(results)))))

\* one turn of the for loop of compare over the diff (448-514), on the pair
\* of action and entity; c holds what the loop only reads
CompareStep(c, acc, action, entity) ==
    IF action = "delete"
    THEN With(Notify(acc.cc, "missingEntity", c.l10n_file, entity), LAMBDA n :
         With([acc EXCEPT !.cc = n.cc, !.log = Append(@, n.event)],
              LAMBDA seen :
         IF n.rv = "AssertionError" THEN [seen EXCEPT !.raised = TRUE]
         ELSE IF n.rv = "ignore" THEN seen
         ELSE IF n.rv = "error"
         THEN [seen EXCEPT
                 !.missings = Append(@, entity),
                 !.missing = @ + 1,
                 !.missing_w =
                    @ + countWords(Val(c.g, c.ref.contents,
                                       c.ref.l[c.ref.m[entity] + 1]))]
         ELSE [seen EXCEPT !.report = @ + 1]))
    ELSE IF action = "add"
    THEN With(c.l10n.l[c.l10n.m[entity] + 1], LAMBDA item :
         IF item.junk
         THEN With(Notify(acc.cc, "error", c.l10n_file,
                          UnparsedMessage(c.l10n.contents, item)), LAMBDA n :
              [acc EXCEPT
                 !.cc = n.cc,
                 !.log = Append(@, n.event),
                 !.skips = IF c.merge_file THEN Append(@, item) ELSE @])
         ELSE With(Notify(acc.cc, "obsoleteEntity", c.l10n_file, entity),
                   LAMBDA n :
              With([acc EXCEPT !.cc = n.cc, !.log = Append(@, n.event)],
                   LAMBDA seen :
              IF n.rv = "AssertionError" THEN [seen EXCEPT !.raised = TRUE]
              ELSE IF n.rv # "ignore" THEN [seen EXCEPT !.obsolete = @ + 1]
              ELSE seen)))
    ELSE With(c.ref.l[c.ref.m[entity] + 1], LAMBDA refent :
         With(c.l10n.l[c.l10n.m[entity] + 1], LAMBDA l10nent :
         With(Val(c.g, c.ref.contents, refent), LAMBDA refval :
         RunChecks(c,
             IF keyRE(entity) THEN [acc EXCEPT !.keys = @ + 1]
             ELSE IF refval = Val(c.g, c.l10n.contents, l10nent)
             THEN [acc EXCEPT !.unchanged = @ + 1,
                              !.unchanged_w = @ + countWords(refval)]
             ELSE [acc EXCEPT !.changed = @ + 1,
                              !.changed_w = @ + countWords(refval)],
             refent, l10nent, CheckerCheck(c.checker, refent, l10nent)))))

RECURSIVE CompareLoop(_, _, _)
\* the for loop of compare over the pairs AddRemove yields, until one of
\* the notify calls raises
CompareLoop(c, acc, diff) ==
    IF diff = <<>> \/ acc.raised THEN acc
    ELSE CompareLoop(c, CompareStep(c, acc, Head(diff)[1], Head(diff)[2]),
                     Tail(diff))

\* a stats dict that counts the reported keys as missing
StatsReportAsMissing(acc) ==
    SelectSeq(<<<<"missing", acc.missing + acc.report>>,
                <<"missing_w", acc.missing_w>>,
                <<"obsolete", acc.obsolete>>,
                <<"changed", acc.changed>>, <<"changed_w", acc.changed_w>>,
                <<"unchanged", acc.unchanged>>,
                <<"unchanged_w", acc.unchanged_w>>,
                <<"keys", acc.keys>>>>,
              LAMBDA s : s[2] # 0)
\* a stats dict that holds every counter, zero or not
StatsWithZeros(acc) ==
    <<<<"missing", acc.missing>>, <<"missing_w", acc.missing_w>>,
      <<"report", acc.report>>, <<"obsolete", acc.obsolete>>,
      <<"changed", acc.changed>>, <<"changed_w", acc.changed_w>>,
      <<"unchanged", acc.unchanged>>, <<"unchanged_w", acc.unchanged_w>>,
      <<"keys", acc.keys>>>>
\* the stats dict compare builds from its counters (520-532), as a list
Stats(acc) ==
    SelectSeq(<<<<"missing", acc.missing>>, <<"missing_w", acc.missing_w>>,
                <<"report", acc.report>>, <<"obsolete", acc.obsolete>>,
                <<"changed", acc.changed>>, <<"changed_w", acc.changed_w>>,
                <<"unchanged", acc.unchanged>>,
                <<"unchanged_w", acc.unchanged_w>>,
                <<"keys", acc.keys>>>>,
              LAMBDA s : s[2] # 0)

\* an outcome that lets an exception out
OutcomeRaising(cc, junkid, log, raised) ==
    [cc |-> cc, junkid |-> junkid, log |-> log, raised |-> TRUE,
     merged |-> <<>>, parsed |-> <<>>]
\* what a call leaves behind when it touched neither parser nor merge file
Outcome(cc, junkid, log, raised) ==
    [cc |-> cc, junkid |-> junkid, log |-> log, raised |-> raised,
     merged |-> <<>>, parsed |-> <<>>]

\* ContentComparer.compare(ref_file, l10n, merge_file), merge_file given or
\* None, with the checker getChecker gives: the comparer and the Junk
\* counter afterwards, the calls made, whether an AssertionError came out,
\* the bytes written to the merge file if any, and the contents, header and
\* footer the parser is left with if it read any
compare(cc, junkid, ref_file, l10n_file, merge_file, checker) ==
    With(getParser(ref_file), LAMBDA g :
    IF g = "UserWarning" THEN Outcome(cc, junkid, <<>>, FALSE)
    ELSE IF ~Decodable(ref_file.bytes)
    THEN With(Notify(cc, "error", ref_file, DecodeError(ref_file.bytes)),
              LAMBDA n : Outcome(n.cc, junkid, <<n.event>>, FALSE))
    ELSE
    With(Decode(ref_file.bytes), LAMBDA rc :
    With(Parse(g, rc, junkid), LAMBDA rp :
    IF ~Decodable(l10n_file.bytes)
    THEN With(Notify(cc, "error", l10n_file, DecodeError(l10n_file.bytes)),
              LAMBDA n :
         [Outcome(n.cc, rp.junkid, <<n.event>>, FALSE) EXCEPT
             !.parsed = <<[grammar |-> g, contents |-> rc,
                           header |-> rp.header, footer |-> rp.footer]>>])
    ELSE
    With(Decode(l10n_file.bytes), LAMBDA lc :
    With(Parse(g, lc, rp.junkid), LAMBDA lp :
    With([contents |-> rc, l |-> rp.l, m |-> rp.m], LAMBDA ref :
    With([contents |-> lc, l |-> lp.l, m |-> lp.m], LAMBDA l10n :
    With(Sorted(DOMAIN ref.m), LAMBDA ref_list :
    With(Sorted(DOMAIN l10n.m), LAMBDA l10n_list :
    With(CompareLoop(
             [g |-> g, ref |-> ref, l10n |-> l10n, l10n_file |-> l10n_file,
              merge_file |-> merge_file, checker |-> checker],
             [cc |-> cc, log |-> <<>>, raised |-> FALSE,
              report |-> 0, missing |-> 0, obsolete |-> 0,
              changed |-> 0, unchanged |-> 0, keys |-> 0,
              missing_w |-> 0, changed_w |-> 0, unchanged_w |-> 0,
              missings |-> <<>>, skips |-> <<>>],
             AddRemoveIter(SetOf(ref_list), SetOf(l10n_list))), LAMBDA acc :
    With(merge_file /\ (acc.missings # <<>> \/ acc.skips # <<>>),
         LAMBDA merging :
    With(<<[grammar |-> g, contents |-> lc, header |-> lp.header,
            footer |-> lp.footer]>>, LAMBDA parsed :
    With(Stats(acc), LAMBDA stats :
    IF acc.raised
    THEN [Outcome(acc.cc, lp.junkid, acc.log, TRUE) EXCEPT !.parsed = parsed]
    ELSE [cc |-> UpdateStats(acc.cc, l10n_file, stats),
          junkid |-> lp.junkid,
          log |-> acc.log
                  \o (IF merging
                      THEN <<[call |-> "merge", missing |-> acc.missings,
                              skips |-> acc.skips]>>
                      ELSE <<>>)
                  \o <<[call |-> "updateStats", file |-> l10n_file.name,
                        stats |-> stats]>>,
          raised |-> FALSE,
          merged |-> IF merging
                     THEN <<Merge(g, ref, ref_file.bytes, l10n_file.bytes,
                                  acc.missings, acc.skips, lc)>>
                     ELSE <<>>,
          parsed |-> parsed])))))))))))))

RECURSIVE SumWords(_, _, _)
\* the loop of add that sums countWords(e.val) over the entities
SumWords(g, s, entities) ==
    IF entities = <<>> THEN 0
    ELSE countWords(Val(g, s, Head(entities)))
             + SumWords(g, s, Tail(entities))

\* ContentComparer.add(orig, missing)
add(cc, junkid, orig, missing) ==
    With(Notify(cc, "missingFile", missing, <<>>), LAMBDA n :
    With(getParser(orig), LAMBDA g :
    IF n.rv = "AssertionError" THEN Outcome(n.cc, junkid, <<n.event>>, TRUE)
    ELSE IF n.rv = "ignore" \/ g = "UserWarning"
    THEN Outcome(n.cc, junkid, <<n.event>>, FALSE)
    ELSE IF ~Decodable(orig.bytes)
    THEN With(Notify(n.cc, "error", orig, DecodeError(orig.bytes)), LAMBDA e :
         Outcome(e.cc, junkid, <<n.event, e.event>>, FALSE))
    ELSE
    With(Decode(orig.bytes), LAMBDA s :
    With(Parse(g, s, junkid), LAMBDA p :
    With(<<<<"missingInFiles", Cardinality(DOMAIN p.m)>>>>, LAMBDA inFiles :
    With(<<<<"missing_w", SumWords(g, s, p.l)>>>>, LAMBDA words :
    [Outcome(UpdateStats(UpdateStats(n.cc, missing, inFiles), missing, words),
             p.junkid,
             <<n.event,
               [call |-> "updateStats", file |-> missing.name,
                stats |-> inFiles],
               [call |-> "updateStats", file |-> missing.name,
                stats |-> words]>>,
             FALSE)
     EXCEPT !.parsed = <<[grammar |-> g, contents |-> s,
                          header |-> p.header, footer |-> p.footer]>>]))))))

\* ContentComparer.remove(obsolete)
remove(cc, junkid, obsolete) ==
    With(Notify(cc, "obsoleteFile", obsolete, <<>>), LAMBDA n :
    Outcome(n.cc, junkid, <<n.event>>, n.rv = "AssertionError"))

(***************************************************************************)
(* Tree (compare.py, 23-108).  A Tree is its branches, a mapping of tuples *)
(* of path segments to Trees, and its value: <<>> for None, else <<the     *)
(* list>>.  A list made by valuetype() is its items and the number id it   *)
(* was made as, which tells one list object from another.                  *)
(***************************************************************************)
\* Tree.__init__
Tree == [branches |-> EmptyMap, value |-> <<>>]
\* t.valuetype() of a Tree(list): the list made as number n, empty
valuetype(n) == [id |-> n, items |-> <<>>]

RECURSIVE split(_)
\* leaf.split('/'): the pieces of a path between its slashes
split(leaf) ==
    IF \A j \in 1..Len(leaf) : leaf[j] # "/" THEN <<leaf>>
    ELSE With(Min({j \in 1..Len(leaf) : leaf[j] = "/"}), LAMBDA j :
             <<SubSeq(leaf, 1, j - 1)>>
                 \o split(SubSeq(leaf, j + 1, Len(leaf))))

\* the parts of __getitem__: those of the path, after the locale and the
\* module of a File that has them
parts(leaf) ==
    IF leaf.isFile
    THEN SelectSeq(<<leaf.locale, leaf.module>>, LAMBDA p : p # <<>>)
             \o split(leaf.file)
    ELSE split(leaf.file)

\* i after the inner loop of __get and i += 1: the number of leading
\* segments the key k and the parts share (k and parts are never empty)
CommonLen(k, ps) ==
    With({j \in 1..Min({Len(k), Len(ps)}) : k[j] # ps[j]}, LAMBDA differ :
        IF differ = {} THEN Min({Len(k), Len(ps)}) ELSE Min(differ) - 1)

\* a split that makes the new Tree and forgets the branch
SplitOffNothing(v, old) == Tree
\* t = Tree(self.valuetype); t.branches[old] = v
SplitOff(v, old) == [branches |-> Put(EmptyMap, old, v), value |-> <<>>]

\* self.branches without the key k
Pop(branches, k) == [x \in DOMAIN branches \ {k} |-> branches[x]]

\* the end of __get: t.value made when it is None, and returned.  A result
\* is the tree afterwards, the id of the list returned, and the number of
\* lists made so far
ValueOf(t, n) ==
    IF t.value = <<>>
    THEN [tree |-> [branches |-> t.branches, value |-> <<valuetype(n)>>],
          value |-> n, made |-> n + 1]
    ELSE [tree |-> t, value |-> t.value[1].id, made |-> n]

\* self with the branch k replaced by the branch common, the tree of r
Regraft(self, k, common, r) ==
    [tree |-> [branches |-> Put(Pop(self.branches, k), common, r.tree),
               value |-> self.value],
     value |-> r.value, made |-> r.made]

RECURSIVE __get(_, _, _)
\* Tree.__get(parts).  The loop stops at the first key that shares its
\* first segment with the parts; sibling keys differ in their first
\* segment, so the order of the dict does not matter
__get(self, ps, n) ==
    IF \A k \in DOMAIN self.branches : CommonLen(k, ps) = 0
    THEN \* no common: t2.branches[new] = Tree(), whose value is made
         With(ValueOf(Tree, n), LAMBDA r :
             [tree |-> [branches |-> Put(self.branches, ps, r.tree),
                        value |-> self.value],
              value |-> r.value, made |-> r.made])
    ELSE With(CHOOSE k \in DOMAIN self.branches : CommonLen(k, ps) > 0,
         LAMBDA k : With(CommonLen(k, ps), LAMBDA i :
             Regraft(self, k, SubSeq(k, 1, i),
                 IF i < Len(ps)
                 THEN __get(IF i < Len(k)
                            THEN SplitOff(self.branches[k],
                                          SubSeq(k, i + 1, Len(k)))
                            ELSE self.branches[k],
                            SubSeq(ps, i + 1, Len(ps)), n)
                 ELSE ValueOf(IF i < Len(k)
                              THEN SplitOff(self.branches[k],
                                            SubSeq(k, i + 1, Len(k)))
                              ELSE self.branches[k], n))))

\* Tree.__getitem__(leaf)
__getitem__(self, leaf, n) == __get(self, parts(leaf), n)

RECURSIVE append(_, _, _)
\* list.append(item) on the list made as number id, wherever the tree
\* holds it
append(t, id, item) ==
    [branches |-> [k \in DOMAIN t.branches |->
                      append(t.branches[k], id, item)],
     value |-> IF t.value # <<>> /\ t.value[1].id = id
               THEN <<[id |-> id, items |-> Append(t.value[1].items, item)]>>
               ELSE t.value]

RECURSIVE toJSON(_)
\* Tree.toJSON: the value of a node that has one, else the mapping of the
\* joined keys to the toJSON of the branches (a key stays a tuple here)
toJSON(t) ==
    IF t.value # <<>> THEN [value |-> t.value[1].items]
    ELSE [branches |-> [k \in DOMAIN t.branches |-> toJSON(t.branches[k])]]

(***************************************************************************)
(* State.                                                                  *)
(***************************************************************************)
VARIABLES
    pc,         \* where Parser.parse / Parser.__iter__ stands
    grammar,    \* the class of the parser last used
    contents,   \* its self.ctx.contents
    offset,     \* the offset local of __iter__
    header,     \* its self.header
    footer,     \* its self.footer
    l,          \* the l of Parser.parse
    m,          \* the m of Parser.parse
    junkid,     \* Junk.junkid, the class counter
    left,       \* AddRemove.left: <<>> for None, else <<the set>>
    right,      \* AddRemove.right, likewise
    out,        \* the pairs the last iteration of the AddRemove yielded
    observers,       \* ContentComparer.observers
    stat_observers,  \* ContentComparer.stat_observers
    merged,     \* the merge file: <<>> while there is none, else <<bytes>>
    call,       \* the last call on the comparer, with its arguments
    log,        \* the calls the last call made, in order
    raised,     \* whether the last call let an AssertionError out
    pre,        \* observers, stat_observers, junkid, merged before it
    calls,      \* the number of calls made
    _lines,     \* Context._lines: <<>> for None, else <<the list>>
    pos_,       \* what the last ctx.lines(...) returned
    tree,       \* a Tree(list), the details of an Observer
    made,       \* the number of lists the Tree's valuetype() has made
    inserted    \* the tree[path].append(item) done, in order

pvars == <<pc, offset, l, m>>
ctxvars == <<grammar, contents, header, footer>>
dvars == <<left, right, out>>
cvars == <<observers, stat_observers, merged, call, log, raised, pre, calls>>
lvars == <<_lines, pos_>>
tvars == <<tree, made, inserted>>
vars == <<pc, grammar, contents, offset, header, footer, l, m, junkid,
          left, right, out, observers, stat_observers, merged, call, log,
          raised, pre, calls, _lines, pos_, tree, made, inserted>>

\* a parser that has read nothing
NewParser ==
    /\ pc = "new"
    /\ grammar = "properties"
    /\ contents = <<>>
    /\ offset = 0
    /\ header = <<>>
    /\ footer = <<>>
    /\ l = <<>>
    /\ m = EmptyMap
\* AddRemove.__init__
NewAddRemove ==
    /\ left = <<>>
    /\ right = <<>>
    /\ out = <<>>
\* ContentComparer.__init__ on the given observers, nothing called yet
NewComparer(obs, stat) ==
    /\ observers = obs
    /\ stat_observers = stat
    /\ merged = <<>>
    /\ call = [op |-> "none"]
    /\ log = <<>>
    /\ raised = FALSE
    /\ pre = [observers |-> obs, stat_observers |-> stat, junkid |-> 0,
              merged |-> <<>>]
    /\ calls = 0
\* a Context no position was asked of
NewContext ==
    /\ _lines = <<>>
    /\ pos_ = <<>>
\* Tree.__init__
NewTree ==
    /\ tree = Tree
    /\ made = 0
    /\ inserted = <<>>

(***************************************************************************)
(* The parser as a state machine: one parse of one buffer, the iterator    *)
(* advanced one item per step.                                             *)
(***************************************************************************)
MaxFrags == 4

\* the pieces the files of each grammar are put together from
Frags(g) ==
    CASE g = "properties" ->
           {<<"a", "=">>, <<"a">>, <<BS>>, <<BS, BS>>, <<BS, NL, "a">>, <<NL>>,
            <<" ">>, <<"#">>}
      [] g = "defines" ->
           {<<"#", "d", "e", "f", "i", "n", "e", " ", "a", " ", "b", NL>>,
            <<"#", "c">>, <<NL>>, <<" ">>, <<"x">>}
      [] g = "ini" ->
           {<<"[", "a", "]", NL>>, <<"a", "=", "1">>, <<";", "c">>, <<NL>>,
            <<" ">>, <<"x">>}
      [] g = "dtd" ->
           {<<"<", "!", "E", "N", "T", "I", "T", "Y", " ", "a", " ", "\"", "b",
              "\"", ">">>,
            <<"<", "!", "-", "-", "c", "-", "-", ">">>, <<NL>>, <<" ">>,
            <<"x">>, BomBytes}

RECURSIVE Concats(_, _)
\* the concatenations of at most n pieces of F
Concats(F, n) ==
    IF n = 0 THEN {<<>>}
    ELSE LET P == Concats(F, n - 1) IN P \cup {q \o f : q \in P, f \in F}

ParseInit ==
    /\ NewParser
    /\ junkid = 0
    /\ NewAddRemove
    /\ NewComparer(<<>>, <<>>)
    /\ NewContext
    /\ NewTree

\* getParser(path) and p.readContents(bytes)
ReadContents ==
    /\ pc = "new"
    /\ \E g \in Grammars : \E bytes \in Concats(Frags(g), MaxFrags) :
          /\ Decodable(bytes)
          /\ grammar' = g
          /\ contents' = Decode(bytes)
    /\ pc' = "header"
    /\ UNCHANGED <<offset, header, footer, l, m, junkid, dvars, cvars, lvars,
                   tvars>>

\* Parser.__iter__, 201-205
IterHeader ==
    /\ pc = "header"
    /\ \E h \in {GetHeader(grammar, contents, 0)} :
          /\ header' = Slice(contents, 0, h)
          /\ offset' = h
    /\ footer' = <<>>
    /\ pc' = "entity"
    /\ UNCHANGED <<grammar, contents, l, m, junkid, dvars, cvars, lvars,
                   tvars>>

\* Parser.__iter__, 206-209, with the body of the loop of Parser.parse,
\* 192-194, run on the item that is yielded
IterEntity ==
    /\ pc = "entity"
    /\ \E r \in {GetEntity(grammar, contents, offset, junkid)} :
          /\ offset' = r.offset
          /\ junkid' = r.junkid
          /\ IF IsNone(r.entity)
             THEN /\ pc' = "footer"
                  /\ UNCHANGED <<l, m>>
             ELSE /\ pc' = "entity"
                  /\ l' = Append(l, r.entity)
                  /\ m' = Put(m, r.entity.key, Len(l))
    /\ UNCHANGED <<grammar, contents, header, footer, dvars, cvars, lvars,
                   tvars>>

\* Parser.__iter__, 210-215, and the return of Parser.parse
IterFooter ==
    /\ pc = "footer"
    /\ \E tl \in {IterTail(grammar, contents, offset, junkid)} :
          /\ footer' = tl.footer
          /\ junkid' = tl.junkid
          /\ offset' = offset + Len(tl.footer)
          /\ l' = l \o tl.items
          /\ m' = [k \in DOMAIN m
                            \cup {tl.items[i].key : i \in 1..Len(tl.items)} |->
                      IF k \in DOMAIN m THEN m[k] ELSE Len(l)]
    /\ pc' = "done"
    /\ UNCHANGED <<grammar, contents, header, dvars, cvars, lvars, tvars>>

ParseNext == ReadContents \/ IterHeader \/ IterEntity \/ IterFooter

ParseSpec == ParseInit /\ [][ParseNext]_vars

RECURSIVE AllText(_, _)
\* ''.join(e.all for e in items)
AllText(s, items) ==
    IF items = <<>> THEN <<>>
    ELSE All(s, Head(items)) \o AllText(s, Tail(items))

\* C1: when a parse is done, header + the full text of every emitted item
\* in emitted order + footer is the buffer, for every grammar
RoundTrip ==
    pc = "done" => header \o AllText(contents, l) \o footer = contents

\* C3: the item list of a finished parse holds no two non-Junk entities with
\* the same key
KeyUniqueness ==
    pc = "done" =>
        \A i, j \in 1..Len(l) :
            (i < j /\ ~l[i].junk /\ ~l[j].junk) => l[i].key # l[j].key

\* the number of consecutive backslashes right before offset p
BackslashesBefore(s, p) ==
    p - Min({i \in 0..p : \A q \in i..(p - 1) : At(s, q) = BS})

\* C7: in the properties grammar, for every newline inside an entity from
\* its value start on, preceded by N backslashes, the value goes on past the
\* newline if and only if N is odd, and with N even the entity ends with it
ContinuationParity ==
    grammar = "properties" =>
        \A i \in 1..Len(l) :
            ~l[i].junk =>
                \A p \in l[i].val_span[1]..(l[i].span[2] - 1) :
                    At(contents, p) = NL =>
                        LET n == BackslashesBefore(contents, p)
                        IN  /\ (l[i].val_span[2] > p) <=> (n % 2 = 1)
                            /\ (n % 2 = 0) => l[i].span[2] = p + 1

\* a value that goes on after one backslash and a newline, and an entity
\* that ends at a newline after two
ContinuationWitness ==
    /\ grammar = "properties"
    /\ pc = "done"
    /\ \E i \in 1..Len(l) :
          /\ ~l[i].junk
          /\ \E p \in l[i].val_span[1]..(l[i].span[2] - 1) :
                /\ At(contents, p) = NL
                /\ BackslashesBefore(contents, p) = 1
                /\ l[i].val_span[2] > p + 1
                /\ l[i].span[2] > p + 1
    /\ \E i \in 1..Len(l) :
          /\ ~l[i].junk
          /\ At(contents, l[i].span[2] - 1) = NL
          /\ BackslashesBefore(contents, l[i].span[2] - 1) = 2

(***************************************************************************)
(* AddRemove as a state machine.                                           *)
(***************************************************************************)
MaxKeys == 2

\* the keys the lists given to the AddRemove are made of
DiffKeys == {<<"a">>, <<"a", "b">>, <<"B">>, JunkKey(1, <<0, 2>>)}

RECURSIVE Lists(_, _)
\* the lists of at most n elements of S
Lists(S, n) ==
    IF n = 0 THEN {<<>>}
    ELSE LET P == Lists(S, n - 1) IN P \cup {Append(q, k) : q \in P, k \in S}

DiffInit ==
    /\ NewParser
    /\ junkid = 0
    /\ NewAddRemove
    /\ NewComparer(<<>>, <<>>)
    /\ NewContext
    /\ NewTree

\* AddRemove.set_left(keys), keys a list or a set
set_left ==
    /\ \/ \E keys \in Lists(DiffKeys, MaxKeys) : left' = <<SetOf(keys)>>
       \/ \E keys \in SUBSET DiffKeys :
             /\ Cardinality(keys) <= MaxKeys
             /\ left' = <<keys>>
    /\ UNCHANGED <<right, out, pvars, ctxvars, junkid, cvars, lvars, tvars>>

\* AddRemove.set_right(keys)
set_right ==
    /\ \/ \E keys \in Lists(DiffKeys, MaxKeys) : right' = <<SetOf(keys)>>
       \/ \E keys \in SUBSET DiffKeys :
             /\ Cardinality(keys) <= MaxKeys
             /\ right' = <<keys>>
    /\ UNCHANGED <<left, out, pvars, ctxvars, junkid, cvars, lvars, tvars>>

\* list(ar): AddRemove.__iter__ run to its end, with both sides set
iterate ==
    /\ left # <<>>
    /\ right # <<>>
    /\ out' = AddRemoveIter(left[1], right[1])
    /\ UNCHANGED <<left, right, pvars, ctxvars, junkid, cvars, lvars, tvars>>

DiffNext == set_left \/ set_right \/ iterate

DiffSpec == DiffInit /\ [][DiffNext]_vars

\* C2: right after an iteration, with R the left and L the right keys, the
\* pairs yielded hold every key of R and L exactly once and no other key,
\* tagged equal exactly when the key is in both, delete exactly when it is
\* only in R, add exactly when it is only in L
DiffCompleteness ==
    [][iterate =>
          LET R == left[1]
              L == right[1]
              got == out'
          IN  /\ \A k \in R \cup L :
                    Cardinality({i \in 1..Len(got) : got[i][2] = k}) = 1
              /\ \A i \in 1..Len(got) :
                    /\ got[i][2] \in R \cup L
                    /\ got[i][1] = "equal" <=> got[i][2] \in R \cap L
                    /\ got[i][1] = "delete" <=> got[i][2] \in R \ L
                    /\ got[i][1] = "add" <=> got[i][2] \in L \ R]_vars

\* an iteration has yielded a key of each of the three tags
DiffWitness ==
    /\ left # <<>>
    /\ right # <<>>
    /\ out = AddRemoveIter(left[1], right[1])
    /\ {out[i][1] : i \in 1..Len(out)} = {"equal", "delete", "add"}

(***************************************************************************)
(* The comparer as a state machine: a ContentComparer built on some        *)
(* observers, then compare, add and remove called on it.                   *)
(***************************************************************************)
MaxObservers == 2
MaxLines == 2
MaxCalls == 1

\* the filters observers are built with: None, or one of these tables
FilterTables ==
    {[file |-> "error", stats |-> "error", ent |-> "error",
      key |-> <<"b">>, odd |-> "ignore"],
     [file |-> "ignore", stats |-> "ignore", ent |-> "ignore",
      key |-> <<"b">>, odd |-> "ignore"],
     [file |-> "report", stats |-> "error", ent |-> "report",
      key |-> <<"b">>, odd |-> "report"],
     [file |-> "warning", stats |-> "error", ent |-> "warning",
      key |-> <<"b">>, odd |-> "warning"]}

\* the lines the files of each extension are put together from
RefLines(ext) ==
    IF ext = "inc"
    THEN {<<"#", "d", "e", "f", "i", "n", "e", " ", "a", " ", "1", NL>>,
          <<"#", "d", "e", "f", "i", "n", "e", " ", "b", " ", "2", NL>>,
          <<"x", NL>>}
    ELSE IF ext = "dtd"
    THEN {EntityLit \o <<" ", "a", " ", "\"", "1", " ", "2", "\"", ">", NL>>,
          EntityLit
              \o <<" ", "a", "K", "e", "y", " ", "\"", "3", "\"", ">", NL>>}
    ELSE {<<"a", "=", "1", NL>>, <<"b", "=", "2", NL>>, <<"x", NL>>}
L10nLines(ext) ==
    IF ext = "inc"
    THEN {<<"#", "d", "e", "f", "i", "n", "e", " ", "a", " ", "1", NL>>,
          <<"x", NL>>}
    ELSE IF ext = "dtd"
    THEN {EntityLit \o <<" ", "a", " ", "\"", "1", " ", "2", "\"", ">", NL>>,
          EntityLit \o <<" ", "a", " ", "\"", "3", "\"", ">", NL>>,
          EntityLit
              \o <<" ", "a", "K", "e", "y", " ", "\"", "0", "\"", ">", NL>>}
    ELSE {<<"a", "=", "1", NL>>, <<"b", "=", "3", NL>>, <<"x", NL>>}
\* files that are not made of whole lines: one that ends in a backslash,
\* one that is not UTF-8
OddFiles(ext) ==
    IF ext = "inc" THEN {<<"x", NL, BadByte>>}
    ELSE IF ext = "dtd" THEN {}
    ELSE {<<"a", "=", "1", BS>>, <<"a", "=", "1", NL, BadByte>>}
\* a localized file of three lines, the last of them Junk
LongFiles(ext) ==
    IF ext = "properties"
    THEN {<<"a", "=", "1", NL, "b", "=", "3", NL, "x", NL>>}
    ELSE {}

Extensions == {"properties", "inc", "dtd", "txt"}
\* the bytes of the reference files and of the localized files of a type
RefBytes(ext) ==
    IF ext = "txt" THEN {<<"a", NL>>}
    ELSE Concats(RefLines(ext), MaxLines) \cup OddFiles(ext)
L10nBytes(ext) ==
    IF ext = "txt" THEN {<<"a", NL>>}
    ELSE Concats(L10nLines(ext), MaxLines) \cup OddFiles(ext)
             \cup LongFiles(ext)
\* paths.File(fullpath, file) of the reference, by its type and bytes
RefFile(ext, bytes) ==
    [name |-> "ref", locale |-> "None", ext |-> ext, bytes |-> bytes]
\* paths.File(fullpath, file, locale='xx') of the localized file
L10nFile(ext, bytes) ==
    [name |-> "l10n", locale |-> "xx", ext |-> ext, bytes |-> bytes]
\* the checkers getChecker gives: None, or one that reports on the entity a
\* an error, a warning, or two errors
Checkers ==
    {None,
     [key |-> <<"a">>,
      results |-> <<[tp |-> "error", pos |-> <<0>>, msg |-> "msg"]>>],
     [key |-> <<"a">>,
      results |-> <<[tp |-> "warning", pos |-> <<1, 0>>, msg |-> "msg"]>>],
     [key |-> <<"a">>,
      results |-> <<[tp |-> "error", pos |-> <<0>>, msg |-> "msg"],
                    [tp |-> "error", pos |-> <<1>>, msg |-> "msg"]>>]}

Init ==
    /\ NewParser
    /\ junkid = 0
    /\ NewAddRemove
    /\ \E filters \in Lists(FilterTables \cup {None}, MaxObservers) :
       \E stat \in {<<>>, <<Observer(None)>>} :
          NewComparer([i \in 1..Len(filters) |-> Observer(filters[i])], stat)
    /\ NewContext
    /\ NewTree

\* the state after a call c on the comparer with outcome r
Called(c, r) ==
    /\ calls' = calls + 1
    /\ call' = c
    /\ pre' = [observers |-> observers, stat_observers |-> stat_observers,
               junkid |-> junkid, merged |-> merged]
    /\ observers' = r.cc.observers
    /\ stat_observers' = r.cc.stat_observers
    /\ junkid' = r.junkid
    /\ log' = r.log
    /\ raised' = r.raised
    /\ merged' = IF r.merged # <<>> THEN r.merged ELSE merged
    /\ IF r.parsed # <<>>
       THEN /\ grammar' = r.parsed[1].grammar
            /\ contents' = r.parsed[1].contents
            /\ header' = r.parsed[1].header
            /\ footer' = r.parsed[1].footer
       ELSE UNCHANGED ctxvars
    /\ UNCHANGED <<pvars, dvars, lvars, tvars>>

Comparer == [observers |-> observers, stat_observers |-> stat_observers]

\* comparer.compare(ref_file, l10n, merge_file)
Compare ==
    /\ calls < MaxCalls
    /\ ~raised
    /\ \E ext \in Extensions :
       \E ref_bytes \in RefBytes(ext), l10n_bytes \in L10nBytes(ext),
          merge_file \in BOOLEAN,
          checker \in IF ext = "properties" THEN Checkers ELSE {None} :
           LET ref_file == RefFile(ext, ref_bytes)
               l10n_file == L10nFile(ext, l10n_bytes)
           IN  Called([op |-> "compare", ref_file |-> ref_file,
                       l10n_file |-> l10n_file, merge_file |-> merge_file,
                       checker |-> checker],
                      compare(Comparer, junkid, ref_file, l10n_file,
                              merge_file, checker))

\* comparer.add(orig, missing)
Add ==
    /\ calls < MaxCalls
    /\ ~raised
    /\ \E ext \in Extensions : \E ref_bytes \in RefBytes(ext) :
           LET orig == RefFile(ext, ref_bytes)
               missing == L10nFile(ext, <<>>)
           IN  Called([op |-> "add", ref_file |-> orig,
                       l10n_file |-> missing, merge_file |-> FALSE,
                       checker |-> None],
                      add(Comparer, junkid, orig, missing))

\* comparer.remove(obsolete)
Remove ==
    /\ calls < MaxCalls
    /\ ~raised
    /\ \E ext \in Extensions : \E l10n_bytes \in L10nBytes(ext) :
           LET obsolete == L10nFile(ext, l10n_bytes)
           IN  Called([op |-> "remove", ref_file |-> RefFile(ext, <<>>),
                       l10n_file |-> obsolete, merge_file |-> FALSE,
                       checker |-> None],
                      remove(Comparer, junkid, obsolete))

Next == Compare \/ Add \/ Remove

Spec == Init /\ [][Next]_vars

(***************************************************************************)
(* What the last call did, read off the state.                             *)
(***************************************************************************)
\* the notify calls of the last call
Events == {k \in 1..Len(log) : log[k].call = "notify"}
\* those of a category
EventsOf(category) == {k \in Events : log[k].category = category}
\* whether the last call had compare write the merge file
Merging == \E k \in 1..Len(log) : log[k].call = "merge"
\* whether every observer returned ignore at notify call k
AllIgnore(k) == \A i \in 1..Len(log[k].rvs) : log[k].rvs[i] = "ignore"
\* the counter of a category in a summary, 0 when it is not there
Counter(summary, locale, category) ==
    Get(Get(summary, locale, EmptyMap), category, 0)
\* how much the last call raised a counter of observer i for the locale xx
Raised(i, category) ==
    Counter(observers[i].summary, "xx", category)
        - Counter(pre.observers[i].summary, "xx", category)
\* the number of entries of an observer's details
DetailsLen(o) ==
    LET total[S \in SUBSET DOMAIN o.details] ==
            IF S = {} THEN 0
            ELSE LET f == CHOOSE f \in S : TRUE
                 IN  Len(o.details[f]) + total[S \ {f}]
    IN  total[DOMAIN o.details]
\* the last call was a compare in which reading a file failed
ReadFailed ==
    /\ call.op = "compare"
    /\ getParser(call.ref_file) # "UserWarning"
    /\ ~Decodable(call.ref_file.bytes) \/ ~Decodable(call.l10n_file.bytes)
\* the file whose reading failed
FailedFile ==
    IF ~Decodable(call.ref_file.bytes) THEN call.ref_file ELSE call.l10n_file

\* C9: at every notify call the comparer's verdict is ignore exactly when
\* every observer returned ignore; it is error whenever an observer returned
\* error; and each statistics observer has been notified once for every
\* call where not all returned ignore, and for no other
VerdictAggregation ==
    /\ \A k \in Events :
          /\ log[k].rv = "ignore" <=> AllIgnore(k)
          /\ "error" \in SetOf(log[k].rvs) => log[k].rv = "error"
    /\ \A j \in 1..Len(stat_observers) :
          DetailsLen(stat_observers[j]) - DetailsLen(pre.stat_observers[j])
              = Cardinality({k \in Events : ~AllIgnore(k)})

\* one observer returned error and another warning, the verdict was error,
\* and a statistics observer recorded the event
AggregationWitness ==
    /\ Len(stat_observers) = 1
    /\ \E k \in Events :
          /\ {"error", "warning"} \subseteq SetOf(log[k].rvs)
          /\ log[k].rv = "error"
    /\ DetailsLen(stat_observers[1]) > DetailsLen(pre.stat_observers[1])

\* the notify calls of a category at which observer i did not return ignore
Heard(i, category) ==
    {k \in EventsOf(category) : log[k].rvs[i] # "ignore"}
\* the notify calls of a category whose verdict was not ignore
Passed(category) == {k \in EventsOf(category) : log[k].rv # "ignore"}
\* whether updateStats reaches the summary of observer i
Counts(i) ==
    IsNone(observers[i].filter)
        \/ FilterEntity(observers[i].filter, <<>>) # "ignore"

\* C8: after a call, the counters of each observer have risen by no more
\* than the events its own filter did not ignore, also when another
\* observer did not ignore them
IgnoredNeverCounted ==
    \A i \in 1..Len(observers) :
        /\ Raised(i, "missing") + Raised(i, "report")
              <= Cardinality(Heard(i, "missingEntity"))
        /\ Raised(i, "obsolete") <= Cardinality(Heard(i, "obsoleteEntity"))
        /\ Heard(i, "missingFile") = {} => Raised(i, "missingInFiles") = 0

\* what the counters do follow: an event that every observer ignored raises
\* no counter; an event with another verdict is counted once, in the
\* summary of every observer whose filter does not return ignore for the
\* key '', also one that ignored the event itself
IgnoredByAllNeverCounted ==
    \A i \in 1..Len(observers) :
        /\ Raised(i, "missing") + Raised(i, "report")
              = IF Counts(i) /\ ~raised
                THEN Cardinality(Passed("missingEntity")) ELSE 0
        /\ Raised(i, "obsolete")
              = IF Counts(i) /\ ~raised
                THEN Cardinality(Passed("obsoleteEntity")) ELSE 0
        /\ Passed("missingFile") = {} => Raised(i, "missingInFiles") = 0

\* an observer ignored a missing entity that another one did not, and its
\* counter of missing entities went up all the same
IgnoredCountedWitness ==
    \E i \in 1..Len(observers) : \E k \in EventsOf("missingEntity") :
        /\ log[k].rvs[i] = "ignore"
        /\ log[k].rv = "error"
        /\ Heard(i, "missingEntity") = {}
        /\ Raised(i, "missing") = 1

\* what C10 says of the calls made and of the merge file when reading a
\* file fails: one error event, on the file that failed, nothing else
\* called, no exception, the merge file as it was, and each observer as it
\* was but for the error it recorded
FailureReported ==
    /\ Len(log) = 1
    /\ log[1].call = "notify"
    /\ log[1].category = "error"
    /\ log[1].file = FailedFile.name
    /\ ~raised
    /\ merged = pre.merged
    /\ \A i \in 1..Len(observers) :
          observers[i] = ObserverNotify(pre.observers[i], "error",
                                        FailedFile, log[1].data).o

RefJunk ==
    LET rp == Parse(getParser(call.ref_file), Decode(call.ref_file.bytes), 0)
    IN  Cardinality({i \in 1..Len(rp.l) : rp.l[i].junk})

FoundToMerge ==
    \/ \E k \in EventsOf("missingEntity") : log[k].rv = "error"
    \/ EventsOf("error") # {}

\* the last call was a compare of defines files with a merge file given
DefinesMerge ==
    /\ call.op = "compare"
    /\ getParser(call.ref_file) = "defines"
    /\ call.merge_file

\* C5 as stated: whenever a merge file is asked for with the defines
\* grammar, it ends up as a copy of the reference
DefinesMergeCopies ==
    DefinesMerge => merged = <<call.ref_file.bytes>>

\* C5, amended: with the defines grammar the merge file is written exactly
\* when both files were read and something is missing or skipped, and is
\* then a copy of the reference; otherwise it stays as it was
DefinesMergeCopiesIfWritten ==
    DefinesMerge =>
        /\ Merging <=> (~ReadFailed /\ ~raised /\ FoundToMerge)
        /\ merged = IF Merging THEN <<call.ref_file.bytes>> ELSE pre.merged

\* a defines merge file that is the reference and not the localized file
DefinesMergeWitness ==
    /\ DefinesMerge
    /\ Merging
    /\ merged = <<call.ref_file.bytes>>
    /\ call.l10n_file.bytes # <<>>
    /\ call.l10n_file.bytes # call.ref_file.bytes

\* the last call was a compare that wrote a merge file by appending to the
\* localized file, with no error event, so with nothing to skip
AppendingMerge ==
    /\ call.op = "compare"
    /\ Merging
    /\ canMerge(getParser(call.ref_file))
    /\ EventsOf("error") = {}

\* the full text in the reference of the entity of each missingEntity event
\* with the verdict error, in the order of the events, each ending in a
\* newline, joined
MissingTexts ==
    LET g == getParser(call.ref_file)
        rc == Decode(call.ref_file.bytes)
        rp == Parse(g, rc, pre.junkid)
        hard == SelectSeq(log, LAMBDA e : /\ e.call = "notify"
                                          /\ e.category = "missingEntity"
                                          /\ e.rv = "error")
    IN  Join([i \in 1..Len(hard) |->
                 ensureNewline(All(rc, rp.l[rp.m[hard[i].data] + 1]))])

MergedHasNothingMissing ==
    (call.op = "compare" /\ Merging) =>
        LET again == compare(Comparer, junkid, call.ref_file,
                             L10nFile(call.ref_file.ext, merged[1]), FALSE,
                             call.checker)
        IN  \A k \in 1..Len(again.log) :
                again.log[k].call = "notify"
                    => again.log[k].category # "missingEntity"

(***************************************************************************)
(* The completion rate of a locale.                                        *)
(***************************************************************************)
\* the observers of the comparer, the statistics observers included
AllObservers == observers \o stat_observers
\* changed * 100 divided by the total and rounded down, 0 for a total of 0
CompletionOf(summary) ==
    LET total == Total(summary)
    IN  IF total = 0 THEN 0
        ELSE CHOOSE q \in 0..100 :
                 /\ q * total <= Get(summary, "changed", 0) * 100
                 /\ (q + 1) * total > Get(summary, "changed", 0) * 100

\* C11: for every locale of every observer's summary, the completion of
\* the dashboard row and the rate of the text serialization are both
\* changed * 100 divided by the total and rounded down, and 0, not an
\* error, when the total is 0
CompletionRate ==
    \A i \in 1..Len(AllObservers) :
        \A locale \in DOMAIN AllObservers[i].summary :
            LET summary == AllObservers[i].summary[locale]
            IN  /\ toExhibitCompletion(summary)
                      = Returned(CompletionOf(summary))
                /\ serializeRate(summary) = Returned(CompletionOf(summary))

\* what holds of the text serialization alone
SerializedRate ==
    \A i \in 1..Len(AllObservers) :
        \A locale \in DOMAIN AllObservers[i].summary :
            serializeRate(AllObservers[i].summary[locale])
                = Returned(CompletionOf(AllObservers[i].summary[locale]))

(***************************************************************************)
(* What a compare that read both files did with each key.                  *)
(***************************************************************************)
\* the last call was a compare that found a parser and decoded both files
Compared ==
    /\ call.op = "compare"
    /\ getParser(call.ref_file) # "UserWarning"
    /\ Decodable(call.ref_file.bytes)
    /\ Decodable(call.l10n_file.bytes)
\* the decoded reference and localized file of the last call, their parses
RefText == Decode(call.ref_file.bytes)
L10nText == Decode(call.l10n_file.bytes)
RefParse == Parse(getParser(call.ref_file), RefText, pre.junkid)
L10nParse == Parse(getParser(call.ref_file), L10nText, RefParse.junkid)
\* the item of a key in a parse
ItemOf(parse, key) == parse.l[parse.m[key] + 1]
\* the keys that parse a has and parse b has not, and those of both
KeysOnlyIn(a, b) == DOMAIN a.m \ DOMAIN b.m
KeysOfBoth(a, b) == DOMAIN a.m \cap DOMAIN b.m

RECURSIVE SumSeq(_)
\* the sum of a list of numbers
SumSeq(ns) == IF ns = <<>> THEN 0 ELSE Head(ns) + SumSeq(Tail(ns))
\* the sum of f over a finite set
SumOver(S, f(_)) ==
    LET sum[T \in SUBSET S] ==
            IF T = {} THEN 0
            ELSE LET x == CHOOSE x \in T : TRUE IN f(x) + sum[T \ {x}]
    IN  sum[S]
\* what the updateStats calls of the last call passed on for a category
Published(category) ==
    SumSeq([k \in 1..Len(log) |->
               IF log[k].call # "updateStats" THEN 0
               ELSE SumSeq([j \in 1..Len(log[k].stats) |->
                               IF log[k].stats[j][1] = category
                               THEN log[k].stats[j][2] ELSE 0])])
\* the notify calls of a category about a key
EventsAbout(category, key) ==
    {k \in EventsOf(category) : log[k].data = key}
\* the keys of a set that were notified in a category with a verdict that
\* is one of verdicts
NotifiedAs(keys, category, verdicts) ==
    {key \in keys : \E k \in EventsAbout(category, key) :
                        log[k].rv \in verdicts}
\* the merge call of the last call
MergeCall == log[CHOOSE k \in 1..Len(log) : log[k].call = "merge"]
\* the word count of the value of a key in the parse rp of the reference
RefWords(rp, key) ==
    countWords(Val(getParser(call.ref_file), RefText, ItemOf(rp, key)))

\* C12: a compare that read both files and returned has notified
\* missingEntity once for every key that only the reference has, and for
\* no other key; missing counts the keys whose verdict was error, missing_w
\* the words of their reference values, and exactly these keys are handed
\* to merge as missing; report counts the keys with another verdict but
\* ignore, and neither they nor the ignored keys are handed to merge; a
\* compare that raised has notified no key twice
HardAndSoftMissing ==
    Compared =>
        With(RefParse, LAMBDA rp :
        With(KeysOnlyIn(rp, L10nParse), LAMBDA only :
        With(NotifiedAs(only, "missingEntity", {"error"}), LAMBDA hard :
        /\ \A k \in EventsOf("missingEntity") : log[k].data \in only
        /\ \A key \in only :
              Cardinality(EventsAbout("missingEntity", key))
                  = IF raised /\ EventsAbout("missingEntity", key) = {}
                    THEN 0 ELSE 1
        /\ ~raised =>
              /\ Published("missing") = Cardinality(hard)
              /\ Published("missing_w")
                    = SumOver(hard, LAMBDA key : RefWords(rp, key))
              /\ Published("report")
                    = Cardinality(NotifiedAs(only, "missingEntity",
                                             {"warning", "report"}))
              /\ Merging =>
                    /\ SetOf(MergeCall.missing) = hard
                    /\ Len(MergeCall.missing) = Cardinality(hard)
                    /\ \A i \in 1..Len(MergeCall.skips) :
                          MergeCall.skips[i].key \notin only
              /\ (call.merge_file /\ hard # {}) => Merging)))

\* one key was missing with the verdict error and handed to merge, and
\* another was only reported
MissingWitness ==
    /\ Compared
    /\ ~raised
    /\ Merging
    /\ Len(MergeCall.missing) = 1
    /\ \E k \in EventsOf("missingEntity") : log[k].rv = "error"
    /\ \E k \in EventsOf("missingEntity") : log[k].rv = "report"
    /\ Published("report") = 1
    /\ Published("missing") = 1

\* a missing value of two words was counted as two words and one key
MissingWordsWitness ==
    /\ Compared
    /\ ~raised
    /\ Published("missing") = 1
    /\ Published("missing_w") = 2

\* whether a key holds key or Key
NamedKey(key) ==
    \E i \in 1..(Len(key) - 2) :
        SubSeq(key, i, i + 2) \in {<<"k", "e", "y">>, <<"K", "e", "y">>}
\* whether the reference and the localized value of a common key are equal
SameValue(rp, lp, key) ==
    Val(getParser(call.ref_file), RefText, ItemOf(rp, key))
        = Val(getParser(call.ref_file), L10nText, ItemOf(lp, key))

\* C13: a compare that read both files and returned has counted every key
\* of both files once: in keys when it holds key or Key; else in unchanged,
\* with the words of its reference value in unchanged_w, when both values
\* are equal; else in changed, with the words of its reference value in
\* changed_w
CommonKeyClasses ==
    (Compared /\ ~raised) =>
        With(RefParse, LAMBDA rp :
        With(L10nParse, LAMBDA lp :
        With({key \in KeysOfBoth(rp, lp) : ~NamedKey(key)}, LAMBDA plain :
        With({key \in plain : SameValue(rp, lp, key)}, LAMBDA same :
        /\ Published("keys")
              = Cardinality({key \in KeysOfBoth(rp, lp) : NamedKey(key)})
        /\ Published("unchanged") = Cardinality(same)
        /\ Published("unchanged_w")
              = SumOver(same, LAMBDA key : RefWords(rp, key))
        /\ Published("changed") = Cardinality(plain \ same)
        /\ Published("changed_w")
              = SumOver(plain \ same, LAMBDA key : RefWords(rp, key))))))

\* a key named aKey with another value was counted in keys alone, and a
\* reference value of two words changed to one of one word as two words
CommonKeyWitness ==
    /\ Compared
    /\ ~raised
    /\ Published("keys") = 1
    /\ Published("changed") = 1
    /\ Published("changed_w") = 2
    /\ Published("unchanged") = 0

(***************************************************************************)
(* Junk of the localized file, and what merge leaves of the file.          *)
(***************************************************************************)
\* the 1-based line and column of offset p of a text: one more than the
\* newlines before p, and one more than the distance from the last of them
LineColumn(s, p) ==
    LET before == {i \in 1..p : s[i] = NL}
    IN  <<1 + Cardinality(before),
          1 + p - (IF before = {} THEN 0 ELSE Max(before))>>
\* the error message for a Junk with the line and column of both its ends
JunkMessage(s, junk) ==
    LET from == LineColumn(s, junk.span[1])
        to == LineColumn(s, junk.span[2])
    IN  <<"Unparsed content \"">> \o Slice(s, junk.span[1], junk.span[2])
            \o <<"\" from line ", ToString(from[1]), " column ",
                 ToString(from[2]), " to line ", ToString(to[1]), " column ",
                 ToString(to[2])>>
\* a text without the characters inside any of the spans, the rest in order
Without(s, spans) ==
    LET kept == {i \in 1..Len(s) :
                    \A sp \in spans : ~(sp[1] < i /\ i <= sp[2])}
    IN  [j \in 1..Cardinality(kept) |->
            s[CHOOSE i \in kept : Cardinality({x \in kept : x <= i}) = j]]
\* the spans of the items the merge call was told to skip
SkipSpans == {MergeCall.skips[i].span : i \in 1..Len(MergeCall.skips)}
\* whether a is how b starts
IsPrefix(a, b) == Len(a) <= Len(b) /\ SubSeq(b, 1, Len(a)) = a
\* the Junk items of a parse
JunkOf(parse) == {i \in 1..Len(parse.l) : parse.l[i].junk}

\* C14: a compare that read both files and returned has reported every
\* Junk of the localized file in one error event, whose message gives the
\* line and column of the start and of the end of the Junk; no Junk was
\* notified or counted as obsolete; with a merge file asked for, merge was
\* called with every Junk among the items to skip, and in a grammar that
\* can merge the file starts with the localized text without them; a
\* compare that raised has reported no Junk twice
JunkReported ==
    Compared =>
        With(L10nParse, LAMBDA lp :
        With(KeysOnlyIn(lp, RefParse), LAMBDA only :
        /\ \A i \in JunkOf(lp) :
              With(Cardinality({k \in EventsOf("error") :
                        log[k].data = JunkMessage(L10nText, lp.l[i])}),
                   LAMBDA reports :
              /\ reports <= 1
              /\ ~raised => reports = 1
              /\ EventsAbout("obsoleteEntity", lp.l[i].key) = {}
              /\ (call.merge_file /\ ~raised) =>
                    /\ Merging
                    /\ \E j \in 1..Len(MergeCall.skips) :
                          MergeCall.skips[j] = lp.l[i])
        /\ ~raised =>
              Published("obsolete")
                  = Cardinality(NotifiedAs(
                        {key \in only : ~ItemOf(lp, key).junk},
                        "obsoleteEntity", {"error", "warning", "report"}))
        /\ (Merging /\ canMerge(getParser(call.ref_file))) =>
              IsPrefix(Encode(Without(L10nText, SkipSpans)), merged[1])))

\* the second line of the localized file a=1, x was reported as Junk from
\* line 2 column 1 to line 3 column 1 and is not in the merge file
JunkWitness ==
    /\ Compared
    /\ ~raised
    /\ call.l10n_file.bytes = <<"a", "=", "1", NL, "x", NL>>
    /\ call.ref_file.bytes = <<"a", "=", "1", NL>>
    /\ \E k \in EventsOf("error") :
          log[k].data = <<"Unparsed content \"", "x", NL, "\" from line ", "2",
                          " column ", "1", " to line ", "3", " column ", "1">>
    /\ merged = <<<<"a", "=", "1", NL, NL>>>>

(***************************************************************************)
(* What add records of a reference without a localized file.               *)
(***************************************************************************)
\* the last call was an add whose missingFile was not ignored and whose
\* reference was parsed
AddParsed ==
    /\ call.op = "add"
    /\ log[1].rv \notin {"ignore", "AssertionError"}
    /\ getParser(call.ref_file) # "UserWarning"
    /\ Decodable(call.ref_file.bytes)
\* the words of the value of item i of the parse rp of the reference
ItemWords(rp, i) ==
    countWords(Val(getParser(call.ref_file), RefText, rp.l[i]))
\* whether the statistics of the last call count the items of a set
Recorded(rp, items) ==
    /\ Published("missingInFiles") = Cardinality(items)
    /\ Published("missing_w") = SumOver(items, LAMBDA i : ItemWords(rp, i))

\* C15: an add writes no merge file; when its missingFile was ignored no
\* statistics are passed on; when it was not and the reference was parsed,
\* missingInFiles is the number of entities of the reference and missing_w
\* the words of their values, the entities being the items that are not
\* Junk or else all the items
AddCountsEntities ==
    call.op = "add" =>
        /\ ~Merging
        /\ merged = pre.merged
        /\ log[1].rv = "ignore" => Len(log) = 1
        /\ AddParsed =>
              With(RefParse, LAMBDA rp :
                  \/ Recorded(rp, 1..Len(rp.l) \ JunkOf(rp))
                  \/ Recorded(rp, 1..Len(rp.l)))

\* what add does record: the number of different keys of the items, Junk
\* included, and the words of all items, Junk and repeated keys included
AddCountsKeysAndItems ==
    call.op = "add" =>
        /\ ~Merging
        /\ merged = pre.merged
        /\ log[1].rv = "ignore" => Len(log) = 1
        /\ AddParsed =>
              With(RefParse, LAMBDA rp :
                  /\ Published("missingInFiles") = Cardinality(DOMAIN rp.m)
                  /\ Published("missing_w")
                        = SumOver(1..Len(rp.l), LAMBDA i : ItemWords(rp, i)))

(***************************************************************************)
(* The order of what merge appends.                                        *)
(***************************************************************************)
RECURSIVE InFileOrder(_, _)
\* the keys of a set in the order of the positions of their items in a
\* parse
InFileOrder(parse, keys) ==
    IF keys = {} THEN <<>>
    ELSE LET first == CHOOSE key \in keys : \A other \in keys :
                          ItemOf(parse, key).span[1]
                              <= ItemOf(parse, other).span[1]
         IN  <<first>> \o InFileOrder(parse, keys \ {first})
\* the reference text of each key of a list, each ending with a newline,
\* joined
RefTexts(rp, keys) ==
    Join([i \in 1..Len(keys) |->
             ensureNewline(Slice(RefText, ItemOf(rp, keys[i]).span[1],
                                 ItemOf(rp, keys[i]).span[2]))])
\* the keys of the entities the merge call was told to skip
SkippedKeys ==
    {MergeCall.skips[i].key : i \in {j \in 1..Len(MergeCall.skips) :
                                        ~MergeCall.skips[j].junk}}
\* the last call was a compare that had merge write the merge file from
\* the localized file
Merged ==
    /\ Compared
    /\ Merging
    /\ canMerge(getParser(call.ref_file))
\* how many times the merge call was told to skip the entity of a key
SkippedTimes(key) ==
    Cardinality({i \in 1..Len(MergeCall.skips) :
                    MergeCall.skips[i].key = key})
\* the keys of the skipped entities in the order of their positions in
\* the localized parse, each as many times as it was skipped
SkippedInOrder(lp) ==
    With(InFileOrder(lp, SkippedKeys), LAMBDA keys :
        Join([i \in 1..Len(keys) |->
                 [j \in 1..SkippedTimes(keys[i]) |-> keys[i]]]))
\* the merge file when the reference text of the keys missing and then of
\* the keys skipped is appended in the order given: the localized text
\* without the skipped spans, a newline, and these texts
MergedWith(rp, missing, skipped) ==
    Encode(Without(L10nText, SkipSpans) \o <<NL>> \o RefTexts(rp, missing)
               \o RefTexts(rp, skipped))

\* C16: a merge file written from the localized file holds the reference
\* text of the missing entities in the order of their positions in the
\* reference file, each ending with a newline
MergeAppendsInFileOrder ==
    Merged =>
        With(RefParse, LAMBDA rp :
            merged[1] = MergedWith(rp,
                            InFileOrder(rp, SetOf(MergeCall.missing)),
                            SkippedInOrder(L10nParse)))

\* the order the texts do come in: that of the sorted keys, in which the
\* diff reported them
MergeAppendsInKeyOrder ==
    Merged =>
        With(RefParse, LAMBDA rp :
            merged[1] = MergedWith(rp, Sorted(SetOf(MergeCall.missing)),
                                   SkippedInOrder(L10nParse)))

(***************************************************************************)
(* The copy merge makes of the localized file.                             *)
(***************************************************************************)
\* the keys of the skipped entities, one for each time one was skipped
SkippedEntityKeys ==
    With(SelectSeq(MergeCall.skips, LAMBDA e : ~e.junk), LAMBDA kept :
        [i \in 1..Len(kept) |-> kept[i].key])
\* the number of bytes merge appended after the copy: the newline, the
\* reference text of the missing keys and of the skipped entities
AppendedLen(rp) ==
    Len(Encode(<<NL>> \o RefTexts(rp, MergeCall.missing)
                   \o RefTexts(rp, SkippedEntityKeys)))

\* C17: whatever the order the skipped items arrived in, the part of the
\* merge file before what merge appended is the localized text without the
\* characters inside the spans of the skipped items: every character
\* outside the spans is there once, in its place
MergeSplice ==
    Merged =>
        With(Len(merged[1]) - AppendedLen(RefParse), LAMBDA copied :
            /\ copied >= 0
            /\ SubSeq(merged[1], 1, copied)
                   = Encode(Without(L10nText, SkipSpans)))

\* merge was given a later item before an earlier one, and copied some of
\* the localized text but not all of it
MergeSpliceWitness ==
    /\ Merged
    /\ \E i, j \in 1..Len(MergeCall.skips) :
           /\ i < j
           /\ MergeCall.skips[i].span[1] > MergeCall.skips[j].span[1]
    /\ Without(L10nText, SkipSpans) # <<>>
    /\ MergeSplice

(***************************************************************************)
(* Context.lines (parser.py, 152-169): the newline table and its queries.  *)
(***************************************************************************)
MaxBuffer == 4
MaxQueries == 2
MaxPositions == 2

\* the contents a Context is made with
Buffers == Concats({<<NL>>, <<"a">>}, MaxBuffer)

\* [m.end() for m in nl.finditer(self.contents)]: the offset after each
\* newline, in order
NewlineEnds(s) ==
    SelectSeq([i \in 1..Len(s) |-> i], LAMBDA i : s[i] = NL)

RECURSIVE BisectLeftFrom(_, _, _, _)
\* the binary search that stops before the entries equal to x
BisectLeftFrom(a, x, lo, hi) ==
    IF lo < hi
    THEN IF a[((lo + hi) \div 2) + 1] < x
         THEN BisectLeftFrom(a, x, ((lo + hi) \div 2) + 1, hi)
         ELSE BisectLeftFrom(a, x, lo, (lo + hi) \div 2)
    ELSE lo
\* bisect.bisect_left(a, x)
BisectLeft(a, x) == BisectLeftFrom(a, x, 0, Len(a))

RECURSIVE BisectFrom(_, _, _, _)
\* the loop of bisect.bisect: halve lo..hi until it is empty, going right
\* of the entries that are at most x (a[mid] is a[mid + 1] here)
BisectFrom(a, x, lo, hi) ==
    IF lo < hi
    THEN IF x < a[((lo + hi) \div 2) + 1]
         THEN BisectFrom(a, x, lo, (lo + hi) \div 2)
         ELSE BisectFrom(a, x, ((lo + hi) \div 2) + 1, hi)
    ELSE lo
\* bisect.bisect(a, x): the number of entries of the sorted list a that
\* are at most x
Bisect(a, x) == BisectFrom(a, x, 0, Len(a))

\* (1 + line, 1 + p - (self._lines[line-1] if line else 0))
LineAndColumn(table, line, p) ==
    <<1 + line, 1 + p - (IF line # 0 THEN table[line] ELSE 0)>>
\* the pos_ of lines(*positions) on the table self._lines
LinesOn(table, positions) ==
    [i \in 1..Len(positions) |->
        LineAndColumn(table, Bisect(table, positions[i]), positions[i])]

\* Context(contents)
LinesInit ==
    /\ pc = "new"
    /\ grammar = "properties"
    /\ contents \in Buffers
    /\ offset = 0
    /\ header = <<>>
    /\ footer = <<>>
    /\ l = <<>>
    /\ m = EmptyMap
    /\ junkid = 0
    /\ NewAddRemove
    /\ NewComparer(<<>>, <<>>)
    /\ NewContext
    /\ NewTree

\* ctx.lines(*positions): builds the table when there is none, and
\* returns the line and column of each position
lines ==
    /\ calls < MaxQueries
    /\ \E positions \in Lists(0..Len(contents), MaxPositions) \ {<<>>} :
       \E table \in {IF _lines = <<>> THEN NewlineEnds(contents)
                      ELSE _lines[1]} :
           /\ _lines' = <<table>>
           /\ pos_' = LinesOn(table, positions)
           /\ call' = [op |-> "lines", positions |-> positions]
    /\ calls' = calls + 1
    /\ UNCHANGED <<observers, stat_observers, merged, log, raised, pre>>
    /\ UNCHANGED <<pvars, ctxvars, junkid, dvars, tvars>>

LinesNext == lines

LinesSpec == LinesInit /\ [][LinesNext]_vars

\* C19: lines gives for each offset p of the contents the line that is one
\* more than the newlines before p and the column that is one more than
\* the distance of p from the end of the last of them (from the start when
\* there is none), whether this query built the table or an earlier one
LinesCountNewlines ==
    call.op = "lines" =>
        /\ Len(pos_) = Len(call.positions)
        /\ \A i \in 1..Len(pos_) :
               pos_[i] = LineColumn(contents, call.positions[i])
        /\ \A i \in 1..Len(pos_) :
               (call.positions[i] > 0 /\ contents[call.positions[i]] = NL)
                   => pos_[i][2] = 1

\* a second query, on a table an earlier query built, for an offset
\* directly after a newline that is not the first one
LinesWitness ==
    /\ call.op = "lines"
    /\ calls = 2
    /\ \E i \in 1..Len(pos_) :
           /\ call.positions[i] > 0
           /\ contents[call.positions[i]] = NL
           /\ pos_[i][1] > 2
           /\ pos_[i][2] = 1
    /\ \E i \in 1..Len(pos_) : pos_[i][2] > 1

(***************************************************************************)
(* The Tree of an observer's details: tree[leaf].append(item).             *)
(***************************************************************************)
MaxInserts == 4
MaxDepth == 3

\* a path that is a string, and a paths.File with its locale, module and
\* file (<<>> for a locale or module that is None)
Path(file) ==
    [isFile |-> FALSE, locale |-> <<>>, module |-> <<>>, file |-> file]
File(locale, module, file) ==
    [isFile |-> TRUE, locale |-> locale, module |-> module, file |-> file]
RECURSIVE PathsOf(_)
\* the paths of n segments a or b
PathsOf(n) ==
    IF n = 1 THEN {<<"a">>, <<"b">>}
    ELSE {q \o <<"/">> \o f : q \in PathsOf(n - 1), f \in PathsOf(1)}
\* the leaves looked up
Leaves ==
    {Path(file) : file \in UNION {PathsOf(n) : n \in 1..MaxDepth}}
        \cup {File(locale, module, file) :
                  locale \in {<<>>, <<"a">>}, module \in {<<>>, <<"b">>},
                  file \in {<<"a">>}}

TreeInit ==
    /\ NewParser
    /\ junkid = 0
    /\ NewAddRemove
    /\ NewComparer(<<>>, <<>>)
    /\ NewContext
    /\ NewTree

\* tree[leaf].append(item), the item being the number of the insert
Insert ==
    /\ Len(inserted) < MaxInserts
    /\ \E leaf \in Leaves :
       \E r \in {__getitem__(tree, leaf, made)} :
           /\ tree' = append(r.tree, r.value, Len(inserted) + 1)
           /\ made' = r.made
           /\ inserted' = Append(inserted,
                              [leaf |-> leaf, slot |-> r.value,
                               item |-> Len(inserted) + 1])
    /\ UNCHANGED <<pvars, ctxvars, junkid, dvars, cvars, lvars>>

TreeNext == Insert

TreeSpec == TreeInit /\ [][TreeNext]_vars

RECURSIVE Nodes(_)
\* the nodes of a tree
Nodes(t) == {t} \cup UNION {Nodes(t.branches[k]) : k \in DOMAIN t.branches}

\* C18: after any inserts every node of the tree holds a value or holds
\* children, never both
ValueOrChildren ==
    \A t \in Nodes(tree) : t.value = <<>> \/ DOMAIN t.branches = {}

\* what toJSON shows then: of a node with a value and children, the value
\* only, so that not every inserted path is in it
RECURSIVE Shown(_, _)
Shown(json, prefix) ==
    IF "value" \in DOMAIN json THEN {prefix}
    ELSE UNION {Shown(json.branches[k], prefix \o k) :
                   k \in DOMAIN json.branches}
AllInsertedShown ==
    {parts(inserted[i].leaf) : i \in 1..Len(inserted)}
        \subseteq Shown(toJSON(tree), <<>>)

RECURSIVE Slots(_, _)
\* the lists a tree holds, each with the keys on the way to its node,
\* joined
Slots(t, prefix) ==
    (IF t.value = <<>> THEN {}
     ELSE {[at |-> prefix, id |-> t.value[1].id,
            items |-> t.value[1].items]})
        \cup UNION {Slots(t.branches[k], prefix \o k) :
                        k \in DOMAIN t.branches}
\* the parts inserted so far
InsertedParts == {parts(inserted[i].leaf) : i \in 1..Len(inserted)}
\* the list the first tree[p] of the parts ps returned
FirstSlot(ps) ==
    inserted[Min({i \in 1..Len(inserted) :
                     parts(inserted[i].leaf) = ps})].slot
\* the items appended through the parts ps, in order
ItemsVia(ps) ==
    With(SelectSeq(inserted, LAMBDA e : parts(e.leaf) = ps), LAMBDA es :
        [i \in 1..Len(es) |-> es[i].item])

\* C20: after any inserts, tree[p] of an inserted path p returns the list
\* its first tree[p] returned, makes no list and leaves the tree as it is;
\* the tree holds one list for each inserted path, at the node the path
\* leads to, with the items appended through that path in order; no list
\* was made twice; sibling keys differ in their first segment
LookupStable ==
    /\ \A i \in 1..Len(inserted) :
           With(parts(inserted[i].leaf), LAMBDA ps :
               /\ inserted[i].slot = FirstSlot(ps)
               /\ __get(tree, ps, made)
                      = [tree |-> tree, value |-> FirstSlot(ps),
                         made |-> made])
    /\ Slots(tree, <<>>)
           = {[at |-> ps, id |-> FirstSlot(ps), items |-> ItemsVia(ps)] :
                 ps \in InsertedParts}
    /\ made = Cardinality(InsertedParts)
    /\ \A t \in Nodes(tree) : \A k1, k2 \in DOMAIN t.branches :
           /\ k1 # <<>>
           /\ k1 # k2 => k1[1] # k2[1]

\* a path was looked up again after later inserts had split the branch
\* that led to it, twice
LookupWitness ==
    /\ Len(inserted) = 4
    /\ parts(inserted[4].leaf) = parts(inserted[1].leaf)
    /\ Cardinality(InsertedParts) = 3
    /\ \E t \in Nodes(tree) \ {tree} :
           /\ t.value = <<>>
           /\ Cardinality(DOMAIN t.branches) = 2
           /\ \E k \in DOMAIN t.branches :
                  DOMAIN t.branches[k].branches # {}
    /\ LookupStable

(***************************************************************************)
(* The assert of ContentComparer.notify.                                   *)
(***************************************************************************)
\* the notify calls of the last call on the comparer
NotifyCalls == {k \in 1..Len(log) : log[k].call = "notify"}

\* C21: whatever the observers and the verdicts they return, notify
\* returns a verdict: its assert len(rvs) == 1 never fails
AssertNeverFails ==
    /\ ~raised
    /\ \A k \in NotifyCalls : log[k].rv # "AssertionError"

\* when the assert does fail: no observer said error, and the observers
\* that did not say ignore said more than one thing
AssertFailsOnMixedVerdicts ==
    /\ raised <=> \E k \in NotifyCalls : log[k].rv = "AssertionError"
    /\ \A k \in NotifyCalls :
           log[k].rv = "AssertionError"
               <=> /\ "error" \notin SetOf(log[k].rvs)
                   /\ Cardinality(SetOf(log[k].rvs) \ {"ignore"}) > 1

(***************************************************************************)
(* Junk of the reference file in compare.                                  *)
(***************************************************************************)
\* the keys of the Junk items of a parse
JunkKeys(parse) == {parse.l[i].key : i \in JunkOf(parse)}

\* C22: compare notifies no missingEntity for the key of a Junk of the
\* reference, hands no such key to merge as missing, and counts nothing
\* as missing when the two files are the same
ReferenceJunkNotMissing ==
    Compared =>
        With(JunkKeys(RefParse), LAMBDA junk :
            /\ \A key \in junk : EventsAbout("missingEntity", key) = {}
            /\ Merging => SetOf(MergeCall.missing) \cap junk = {}
            /\ call.ref_file.bytes = call.l10n_file.bytes
                   => Published("missing") = 0)

\* what compare does with them: the key of a Junk holds the number the
\* Junk was made as, so the localized file never has it, and every Junk of
\* the reference is notified as a missing entity
ReferenceJunkIsMissing ==
    (Compared /\ ~raised) =>
        With(JunkKeys(RefParse), LAMBDA junk :
            /\ junk \cap DOMAIN L10nParse.m = {}
            /\ \A key \in junk :
                   Cardinality(EventsAbout("missingEntity", key)) = 1)

(***************************************************************************)
(* How often merge appends the reference text of an entity.                *)
(***************************************************************************)
\* C23: a merge file written from the localized file holds the reference
\* text of every skipped entity once after that of the missing keys,
\* however many errors the checker reported for it
MergeReplacesOnce ==
    Merged =>
        With(RefParse, LAMBDA rp :
            merged[1] = MergedWith(rp, MergeCall.missing,
                                   InFileOrder(L10nParse, SkippedKeys)))

\* what merge appends: the reference text of a skipped entity once for
\* every error of the checker
MergeReplacesPerError ==
    Merged =>
        /\ With(RefParse, LAMBDA rp :
               merged[1] = MergedWith(rp, MergeCall.missing,
                                      SkippedInOrder(L10nParse)))
        /\ \A key \in SkippedKeys :
               SkippedTimes(key)
                   = Cardinality({i \in 1..Len(call.checker.results) :
                                     call.checker.results[i].tp = "error"})

(***************************************************************************)
(* The accounting of compare.                                              *)
(***************************************************************************)
\* the updateStats calls of the last call on the comparer
StatsCalls == {k \in 1..Len(log) : log[k].call = "updateStats"}
\* the notify calls of a category that every observer ignored
IgnoredEvents(category) ==
    {k \in EventsOf(category) : log[k].rv = "ignore"}
\* the counters compare passes on
StatNames ==
    {"missing", "missing_w", "report", "obsolete", "changed", "changed_w",
     "unchanged", "unchanged_w", "keys"}

\* C24: a compare that read both files and returned has put every key into
\* one bucket: changed, unchanged and keys add up to the keys of both
\* files; missing, report and the ignored missingEntity events to the keys
\* of the reference only; obsolete, the Junk of the localized file and the
\* ignored obsoleteEntity events to the keys of the localized file only;
\* and it has called updateStats once, with the counters that are not zero
\* and no other
Accounting ==
    (Compared /\ ~raised) =>
        With(RefParse, LAMBDA rp :
        With(L10nParse, LAMBDA lp :
        /\ Published("changed") + Published("unchanged") + Published("keys")
               = Cardinality(KeysOfBoth(rp, lp))
        /\ Published("missing") + Published("report")
               + Cardinality(IgnoredEvents("missingEntity"))
               = Cardinality(KeysOnlyIn(rp, lp))
        /\ Published("obsolete") + Cardinality(JunkOf(lp))
               + Cardinality(IgnoredEvents("obsoleteEntity"))
               = Cardinality(KeysOnlyIn(lp, rp))
        /\ Cardinality(StatsCalls) = 1
        /\ \A k \in StatsCalls :
               /\ \A j \in 1..Len(log[k].stats) :
                      /\ log[k].stats[j][1] \in StatNames
                      /\ log[k].stats[j][2] > 0
                      /\ \A i \in 1..Len(log[k].stats) :
                             log[k].stats[i][1] = log[k].stats[j][1] => i = j
               /\ Published("missing") > 0
                      <=> \E e \in EventsOf("missingEntity") :
                             log[e].rv = "error"
               /\ Published("report") > 0
                      <=> \E e \in EventsOf("missingEntity") :
                             log[e].rv \notin {"error", "ignore"}
               /\ Published("obsolete") > 0
                      <=> \E e \in EventsOf("obsoleteEntity") :
                             log[e].rv # "ignore"
               /\ (Published("changed") + Published("unchanged")
                       + Published("keys") > 0)
                      <=> KeysOfBoth(rp, lp) # {}))

\* a compare with a key in each bucket: one of both files, one of the
\* reference only that was ignored, a Junk of the localized file; some
\* counters were passed on and some, being zero, were not
AccountingWitness ==
    /\ Compared
    /\ ~raised
    /\ IgnoredEvents("missingEntity") # {}
    /\ JunkOf(L10nParse) # {}
    /\ KeysOfBoth(RefParse, L10nParse) # {}
    /\ \E k \in StatsCalls :
           /\ log[k].stats # <<>>
           /\ Len(log[k].stats) < Cardinality(StatNames)
    /\ Published("missing") = 0

====
